---------------------------- MODULE Spec2Model ----------------------------
(***************************************************************************)
(* A model of codepr/webcrawler: the Crawl orchestrator, the per-seed      *)
(* crawl engine (crawlPage: main loop and worker goroutines), the          *)
(* CrawlingRules politeness policy, the in-memory visited cache and the    *)
(* goquery link extractor, run against a small fixed web.                  *)
(***************************************************************************)
EXTENDS Integers, Sequences, FiniteSets, TLC

(***************************************************************************)
(* Bounds of the model.                                                    *)
(***************************************************************************)
\* Concurrency settings explored: 0..MaxConcurrency.
MaxConcurrency == 2
\* MaxDepth settings explored: 0..MaxDepthSetting.
MaxDepthSetting == 3
\* Fixed delays explored, in milliseconds: 0..MaxFixedDelay, with that of the
\* unit test and the default.
MaxFixedDelay == 4
\* Response times explored: 0..MaxResponseHalfSeconds half seconds.
MaxResponseHalfSeconds == 4
\* The longest document handed to the parser on its own, in elements.
MaxDocLen == 3

\* The goroutines that call the cache at once.
MaxCallers == 3

(***************************************************************************)
(* Program constants.                                                      *)
(***************************************************************************)
\* http.StatusBadRequest: FetchLinks treats a status >= 400 as an error.
StatusBadRequest == 400
\* http.StatusNotFound: a 404 robots.txt leaves the robots group unset.
StatusNotFound == 404
\* defaultPolitenessDelay, in milliseconds.
defaultPolitenessDelay == 500

(***************************************************************************)
(* URLs. A URL is the record net/url builds: scheme, opaque, host (with    *)
(* its port kept apart) and path. The path is held as a flag (does it      *)
(* start with "/") and the rest of the text, so that reference resolution  *)
(* can be computed.                                                        *)
(***************************************************************************)
MkURL(scheme, host, port, rooted, rest) ==
    [scheme |-> scheme, opaque |-> "", host |-> host, port |-> port,
     rooted |-> rooted, rest |-> rest]

Opaque(scheme, opaque) ==
    [scheme |-> scheme, opaque |-> opaque, host |-> "", port |-> "",
     rooted |-> FALSE, rest |-> ""]

\* An absolute http URL without port and a host-less reference.
Abs(host, rest) == MkURL("http", host, "", TRUE, rest)
Rel(rooted, rest) == MkURL("", "", "", rooted, rest)

\* url.URL.Path
Path(u) == IF u.rooted THEN "/" \o u.rest ELSE u.rest

\* url.URL.Host ("host" or "host:port") and url.URL.Hostname() (port stripped)
Host(u) == IF u.port = "" THEN u.host ELSE u.host \o ":" \o u.port
Hostname(u) == u.host

\* url.URL.String()
String(u) ==
    IF u.opaque # ""
    THEN u.scheme \o ":" \o u.opaque
    ELSE (IF u.scheme # "" THEN u.scheme \o ":" ELSE "")
         \o (IF (u.scheme # "" \/ Host(u) # "") /\ (Host(u) # "" \/ Path(u) # "")
             THEN "//" ELSE "")
         \o Host(u)
         \o (IF Path(u) # "" /\ ~u.rooted /\ Host(u) # "" THEN "/" ELSE "")
         \o Path(u)

\* url.URL.RequestURI(): the opaque part or the path ("/" when empty)
RequestURI(u) ==
    IF u.opaque # "" THEN u.opaque
    ELSE IF Path(u) = "" THEN "/" ELSE Path(u)

\* url.URL.ResolveReference for a base whose path is empty (the only bases
\* this program builds are "scheme://host", see parseStartURL) or "/...".
ResolveReference(base, ref) ==
    IF ref.scheme # "" THEN ref
    ELSE IF ref.host # ""
    THEN [ref EXCEPT !.scheme = base.scheme]
    ELSE IF ~ref.rooted /\ ref.rest = ""
    THEN base
    ELSE [base EXCEPT !.rooted = TRUE, !.rest = ref.rest]

(***************************************************************************)
(* The web the crawler runs against: hosts "s" (the seed's), "sub.s" (a    *)
(* subdomain of it) and "x" (a foreign host), and a mailto URL (no host).   *)
(***************************************************************************)
Seed == Abs("s", "")
PageA == Abs("s", "a")
PageB == Abs("s", "b")
PageT == Abs("s", "test")
PageSub == Abs("sub.s", "q")
PageX == Abs("x", "p")
MailTo == Opaque("mailto", "me@s")
XSeed == Abs("x", "")

\* Every URL record the model can build, with the bases parseStartURL prints
\* and the robots.txt locations.
KnownURLs ==
    {Seed, PageA, PageB, PageT, PageSub, PageX, MailTo, XSeed,
     MkURL("http", "s", "", FALSE, ""), MkURL("http", "x", "", FALSE, ""),
     MkURL("http", "sub.s", "", FALSE, ""),
     Abs("s", "robots.txt"), Abs("x", "robots.txt"), Abs("s", "help")}

\* The strings url.Parse rejects.
BadURLStrings == {"http://[s"}

\* url.Parse on the strings of the model: the URL record that prints as s.
ParseOK(s) == \E u \in KnownURLs : String(u) = s
ParseURL(s) == CHOOSE u \in KnownURLs : String(u) = s


(***************************************************************************)
(* HTML documents: the sequence of elements goquery yields, in document   *)
(* order. href is the parsed form of the href text (parses: url.Parse     *)
(* accepts it), ext is filepath.Ext of the href text.                      *)
(***************************************************************************)
Elem(tag, rel, href, ext) ==
    [tag |-> tag, hasRel |-> rel # "", rel |-> rel, hasHref |-> TRUE,
     href |-> href, ext |-> ext, parses |-> TRUE]

Anchor(href) == Elem("a", "", href, "")
Canonical(href) == Elem("link", "canonical", href, "")
Img == [tag |-> "img", hasRel |-> FALSE, rel |-> "", hasHref |-> FALSE,
        href |-> Rel(FALSE, ""), ext |-> "", parses |-> TRUE]

\* What the servers answer to a GET: a transport error, or a status and a
\* document; rt is the response time in milliseconds.
Response(status, doc, rt) == [err |-> FALSE, status |-> status, doc |-> doc, rt |-> rt]
TransportError == [err |-> TRUE, status |-> 0, doc |-> <<>>, rt |-> 0]

\* The site "main". Host "s" serves "/", "/a" and "/b", host "x" serves "/"
\* and "/p", host "sub.s" serves "/q"; anything else is not found, with an
\* error page that links to help. "/" links
\* to x/p, a and b; a links to sub.s/q, test and back to "/"; b links to test
\* and x/p.
MainSite(target) ==
    CASE target = String(Seed) ->
           Response(200, <<Canonical(PageX), Img, Anchor(Rel(FALSE, "a")),
                           Anchor(Rel(TRUE, "b"))>>, 1500)
      [] target = String(PageA) ->
           Response(200, <<Canonical(PageSub), Canonical(Rel(TRUE, "test")),
                           Anchor(Rel(TRUE, ""))>>, 500)
      [] target = String(PageB) ->
           Response(200, <<Anchor(Rel(FALSE, "test")), Canonical(PageX)>>, 500)
      [] target = String(XSeed) ->
           Response(200, <<Anchor(PageA), Anchor(Rel(TRUE, "p"))>>, 500)
      [] target = String(PageX) ->
           Response(200, <<Img>>, 500)
      [] target = String(PageSub) ->
           Response(200, <<Anchor(Rel(TRUE, "q"))>>, 500)
      [] OTHER -> Response(StatusNotFound, <<Anchor(Rel(TRUE, "help"))>>, 500)

\* The site "mail". Host "s" serves "/", which links to a mail address and to
\* test, and "/test", which links to sub.s/q.
MailSite(target) ==
    CASE target = String(Seed) ->
           Response(200, <<Anchor(MailTo), Anchor(Rel(TRUE, "test"))>>, 500)
      [] target = String(PageT) ->
           Response(200, <<Anchor(PageSub)>>, 500)
      [] OTHER -> Response(StatusNotFound, <<>>, 500)

\* The GET of the http.Client: a URL that does not parse or whose scheme is
\* not http(s) is a transport error.
HttpGet(s, target) ==
    IF ~ParseOK(target) \/ ParseURL(target).scheme \notin {"http", "https"}
    THEN TransportError
    ELSE IF s = "main" THEN MainSite(target) ELSE MailSite(target)

\* The robots.txt group the server of host "s" publishes when it publishes
\* one: "Disallow: */test", "Crawl-delay: 1" (milliseconds here).
RobotsGroupS == [disallow |-> {"/test"}, crawlDelay |-> 1000]

\* robotstxt.Group.Test
RobotsTest(group, uri) == uri \notin group.disallow

(***************************************************************************)
(* fetcher: parseStartURL, resolveRelativeURL and the element filter of    *)
(* GoqueryParser.extractLinks.                                             *)
(***************************************************************************)
\* parseStartURL: "scheme://host" of a URL string
parseStartURL(u) ==
    LET parsed == ParseURL(u) IN parsed.scheme \o "://" \o Host(parsed)

\* resolveRelativeURL: <<link>> when the href resolves, <<>> when it does not
resolveRelativeURL(baseURL, el) ==
    IF ~el.parses THEN <<>>
    ELSE IF Hostname(el.href) # "" THEN <<el.href>>
    ELSE IF ~ParseOK(baseURL) THEN <<>>
    ELSE <<ResolveReference(ParseURL(baseURL), el.href)>>

\* The FilterFunction of extractLinks over the "a,link" selection
Qualifies(excludedExts, el) ==
    LET anchorOk == el.hasHref /\ el.ext \notin excludedExts
        linkOk == el.hasRel /\ el.rel = "canonical" /\ "" \notin excludedExts
    IN el.tag \in {"a", "link"} /\ (anchorOk \/ linkOk)

\* The links of the qualifying elements of a document, resolved, in document
\* order: what the Each callback of extractLinks is run on.
RECURSIVE ResolvedLinks(_, _, _)
ResolvedLinks(excludedExts, baseURL, doc) ==
    IF doc = <<>> THEN <<>>
    ELSE (IF Qualifies(excludedExts, Head(doc))
          THEN resolveRelativeURL(baseURL, Head(doc)) ELSE <<>>)
         \o ResolvedLinks(excludedExts, baseURL, Tail(doc))

(***************************************************************************)
(* State.                                                                  *)
(***************************************************************************)
VARIABLES
    settings,    \* CrawlerSettings: Concurrency, MaxDepth
    URLs,        \* the seed strings Crawl is called with
    site,        \* the site the servers serve: "main", "mail"
    robotsTxt,   \* what host "s" answers for /robots.txt: "404", "ok",
                 \* "error" (no answer), "garbage" (a body that does not parse)
    producer,    \* the message queue: "up", "flaky" (Produce may fail)
    unit,        \* a CrawlingRules and its cache exercised on their own, the
                 \* way the unit tests do: the rules, the last call and its
                 \* result, and what was asked of them so far
    crawl,       \* Crawl: its position, the next seed, the engines' WaitGroup
    cancelled,   \* the shared context is cancelled
    exited,      \* os.Exit was called
    cache,       \* memoryCache.cache: namespace -> set of keys
    excludedExts,\* GoqueryParser.excludedExts
    seen,        \* GoqueryParser.seen (a sync.Map): URL string -> BOOLEAN
    eng,         \* one crawlPage activation per seed, in spawn order
    workers,     \* per engine, the worker goroutines in spawn order
    fetched,     \* per engine, the URL strings passed to FetchLinks, in order
    bus          \* the ParsedResults handed to the Producer, in order

vars == <<settings, URLs, site, robotsTxt, producer, unit, crawl, cancelled,
          exited, cache, excludedExts, seen, eng, workers, fetched, bus>>

\* What no step of Crawl changes.
config == <<settings, URLs, site, robotsTxt, producer, unit, excludedExts>>

Engines == 1..Len(eng)
Workers(e) == 1..Len(workers[e])

(***************************************************************************)
(* memoryCache                                                             *)
(***************************************************************************)
\* Contains with its arguments taken in the wrong order.
ContainsSwapped(c, namespace, key) ==
    IF key \notin DOMAIN c THEN FALSE ELSE namespace \in c[key]

\* memoryCache.Contains
Contains(c, namespace, key) ==
    IF namespace \notin DOMAIN c THEN FALSE ELSE key \in c[namespace]

\* A Set that starts the namespace's set anew.
CacheSetReplace(c, namespace, key) == (namespace :> {key}) @@ c

\* memoryCache.Set
CacheSet(c, namespace, key) ==
    IF namespace \notin DOMAIN c
    THEN (namespace :> {key}) @@ c
    ELSE [c EXCEPT ![namespace] = @ \cup {key}]

(***************************************************************************)
(* CrawlingRules                                                           *)
(***************************************************************************)
\* NewCrawlingRules (the cache is the one memoryCache of the program);
\* durations are in milliseconds.
NewCrawlingRules(baseDomain, fixedDelay) ==
    [baseDomain |-> baseDomain, robotsGroup |-> <<>>, fixedDelay |-> fixedDelay,
     lastDelay |-> 0]

\* A domain test that takes the subdomains of the seed's host as in-domain.
subdomainSuffix(domain, link) ==
    Hostname(link) \in {Hostname(domain), "sub." \o Hostname(domain), ""}

\* subdomain
subdomain(domain, link) ==
    Hostname(link) = Hostname(domain) \/ Hostname(link) = ""

\* An Allowed that does not consult the robots group.
AllowedResultNoRobots(r, link) == subdomain(r.baseDomain, link)

\* The value Allowed returns once the visited check has passed.
AllowedResult(r, link) ==
    IF r.robotsGroup # <<>>
    THEN RobotsTest(r.robotsGroup[1], RequestURI(link)) /\ subdomain(r.baseDomain, link)
    ELSE subdomain(r.baseDomain, link)

\* An Allowed that marks a link visited only when it allows it.
AllowedMarksGranted(c, r, link) ==
    IF Contains(c, String(r.baseDomain), String(link))
    THEN <<FALSE, c>>
    ELSE <<AllowedResult(r, link),
           IF AllowedResult(r, link)
           THEN CacheSet(c, String(r.baseDomain), String(link)) ELSE c>>

\* Allowed, called with no other caller of the cache running:
\* <<the value returned, the cache after the call>>
Allowed(c, r, link) ==
    IF Contains(c, String(r.baseDomain), String(link))
    THEN <<FALSE, c>>
    ELSE <<AllowedResult(r, link), CacheSet(c, String(r.baseDomain), String(link))>>

\* UpdateLastDelay: the square of the response time in seconds, truncated to
\* whole seconds by the float to Duration conversion; in milliseconds.
UpdateLastDelay(r, rt) ==
    [r EXCEPT !.lastDelay = ((rt * rt) \div 1000000) * 1000]

\* robotsTxtPath
robotsTxtPath == Rel(TRUE, "robots.txt")

\* What Fetch gets for a robots.txt URL: host "s" answers as robotsTxt says,
\* any other host has none. parses: robotstxt.FromResponse accepts the body.
RobotsFetch(target) ==
    IF target # String(Abs("s", "robots.txt"))
    THEN [err |-> FALSE, status |-> StatusNotFound, parses |-> FALSE]
    ELSE CASE robotsTxt = "ok" -> [err |-> FALSE, status |-> 200, parses |-> TRUE]
           [] robotsTxt = "garbage" -> [err |-> FALSE, status |-> 200, parses |-> FALSE]
           [] robotsTxt = "error" -> [err |-> TRUE, status |-> 0, parses |-> FALSE]
           [] OTHER -> [err |-> FALSE, status |-> StatusNotFound, parses |-> FALSE]

\* randDelay: the values rand.Int63n(int64(max-min)) + int64(max) can take,
\* with max = 1.5*value and min = 0.5*value.
randDelay(value) ==
    IF value = 0 THEN {0}
    ELSE {n + (3 * value) \div 2 : n \in 0..(value - 1)}

Max(a, b) == IF a >= b THEN a ELSE b

\* A CrawlDelay in which the robots delay, when there is one, wins.
CrawlDelayRobotsFirst(r, randomDelay) ==
    IF r.robotsGroup # <<>> THEN r.robotsGroup[1].crawlDelay
    ELSE Max(r.lastDelay, randomDelay)

\* CrawlDelay, in milliseconds, for the value randDelay gave it.
CrawlDelay(r, randomDelay) ==
    LET delay == IF r.robotsGroup # <<>> THEN r.robotsGroup[1].crawlDelay ELSE 0
        baseDelay == Max(randomDelay, delay)
    IN Max(r.lastDelay, baseDelay)

\* A GetRobotsTxtGroup that takes a body it cannot parse for a robots.txt.
GetRobotsTxtGroupOkUnparsed(domain) ==
    LET res == RobotsFetch(String(ResolveReference(domain, robotsTxtPath)))
    IN ~(res.err \/ res.status = StatusNotFound)

\* GetRobotsTxtGroup, the boolean it returns: false on a fetch error, a 404
\* or a body that does not parse.
GetRobotsTxtGroupOk(domain) ==
    LET res == RobotsFetch(String(ResolveReference(domain, robotsTxtPath)))
    IN ~(res.err \/ res.status = StatusNotFound) /\ res.parses

\* A GetRobotsTxtGroup that fetches and leaves the group unset.
GetRobotsTxtGroupUnset(r, domain) == r

\* GetRobotsTxtGroup: the rules after the robots.txt fetch
GetRobotsTxtGroup(r, domain) ==
    IF GetRobotsTxtGroupOk(domain)
    THEN [r EXCEPT !.robotsGroup = <<RobotsGroupS>>]
    ELSE r


(***************************************************************************)
(* Crawl: the orchestrator.                                                *)
(***************************************************************************)
\* The state of crawlPage when its goroutine starts (lines 163-176).
NewEngine(rootURL) ==
    [rootURL |-> rootURL, pc |-> "start",
     semaphore |-> 0, semCap |-> 0, linksCh |-> <<>>, chCap |-> 0,
     stop |-> FALSE, depth |-> 0, fetchWg |-> 0, linkCounter |-> 1,
     links |-> <<>>, crawlingRules |-> NewCrawlingRules(rootURL, defaultPolitenessDelay)]

\* One turn of the loop over the seeds: parse, default the scheme, spawn the
\* engine; logger.Fatal on a seed that does not parse ends the process. After
\* the last seed the signal handler is installed and Crawl waits (lines
\* 305-312).
CrawlSpawn ==
    /\ ~exited
    /\ crawl.pc = "loop"
    /\ crawl.i <= Len(URLs)
    /\ LET href == URLs[crawl.i] IN
         IF ~ParseOK(href)
         THEN /\ exited' = TRUE
              /\ crawl' = [crawl EXCEPT !.pc = "exited"]
              /\ eng' = <<>>
              /\ workers' = <<>>
              /\ cache' = << >>
              /\ seen' = << >>
              /\ UNCHANGED fetched
         ELSE LET parsed == ParseURL(href)
                  url == IF parsed.scheme = ""
                         THEN [parsed EXCEPT !.scheme = "https"] ELSE parsed
              IN /\ crawl' = [crawl EXCEPT !.i = @ + 1, !.wg = @ + 1,
                                           !.pc = IF crawl.i = Len(URLs) THEN "wait"
                                                  ELSE "loop"]
                 /\ eng' = Append(eng, NewEngine(url))
                 /\ workers' = Append(workers, <<>>)
                 /\ fetched' = Append(fetched, <<>>)
                 /\ UNCHANGED <<exited, cache, seen>>
    /\ UNCHANGED <<config, cancelled, bus>>

\* wg.Wait() returns: "Crawling done".
CrawlDone ==
    /\ ~exited
    /\ crawl.pc = "wait"
    /\ crawl.wg = 0
    /\ crawl' = [crawl EXCEPT !.pc = "done"]
    /\ UNCHANGED <<config, cancelled, exited, cache, seen, eng, workers, fetched, bus>>

\* The signal goroutine receives SIGINT/SIGTERM and calls cancel().
Signal ==
    /\ ~exited
    /\ crawl.pc = "wait"
    /\ ~cancelled
    /\ cancelled' = TRUE
    /\ UNCHANGED <<config, crawl, exited, cache, seen, eng, workers, fetched, bus>>

\* The signal goroutine goes on to os.Exit(1): the process, its goroutines
\* and its memory are gone; what it fetched and produced stays.
Exit ==
    /\ ~exited
    /\ cancelled
    /\ exited' = TRUE
    /\ crawl' = [crawl EXCEPT !.pc = "exited"]
    /\ eng' = <<>>
    /\ workers' = <<>>
    /\ cache' = << >>
    /\ seen' = << >>
    /\ UNCHANGED <<config, cancelled, fetched, bus>>

(***************************************************************************)
(* crawlPage: setup and main loop.                                         *)
(***************************************************************************)
\* A capacity that takes a Concurrency of 0 as unbounded.
ChannelCapUnbounded(concurrency) == IF concurrency > 0 THEN concurrency ELSE 64

\* The capacity of the semaphore and of linksCh (lines 179-189).
ChannelCap(concurrency) == IF concurrency > 0 THEN concurrency ELSE 1

\* Lines 178-192: the channels are made and the root URL is enqueued.
EngineStart(e) ==
    /\ ~exited
    /\ eng[e].pc = "start"
    /\ eng' = [eng EXCEPT ![e].semCap = ChannelCap(settings.Concurrency),
                          ![e].chCap = ChannelCap(settings.Concurrency),
                          ![e].linksCh = <<<<eng[e].rootURL>>>>,
                          ![e].pc = "robots"]
    /\ UNCHANGED <<config, crawl, cancelled, exited, cache, seen, workers, fetched, bus>>

\* Lines 195-201: the rules are created and robots.txt is fetched.
EngineRobots(e) ==
    /\ ~exited
    /\ eng[e].pc = "robots"
    /\ eng' = [eng EXCEPT ![e].crawlingRules =
                              GetRobotsTxtGroup(
                                  NewCrawlingRules(eng[e].rootURL, defaultPolitenessDelay),
                                  eng[e].rootURL),
                          ![e].pc = "select"]
    /\ UNCHANGED <<config, crawl, cancelled, exited, cache, seen, workers, fetched, bus>>

\* The loop condition "for !stop", evaluated after a select case has run: the
\* place the main goroutine goes to.
LoopTo(stop) == IF stop THEN "wait" ELSE "select"

\* case links := <-linksCh
MainReceive(e) ==
    /\ ~exited
    /\ eng[e].pc = "select"
    /\ eng[e].linksCh # <<>>
    /\ LET links == Head(eng[e].linksCh) IN
         eng' = [eng EXCEPT ![e].linksCh = Tail(@),
                            ![e].links = links,
                            ![e].pc = IF links = <<>> THEN LoopTo(eng[e].stop)
                                      ELSE "contains"]
    /\ UNCHANGED <<config, crawl, cancelled, exited, cache, seen, workers, fetched, bus>>

\* Where the range loop over the batch goes after the link at its head.
NextLink(links, stop) == IF Tail(links) = <<>> THEN LoopTo(stop) ELSE "contains"

\* Allowed, first half: the visited check. A visited link is skipped: the
\* counter is decremented and the range loop continues.
MainAllowedContains(e) ==
    /\ ~exited
    /\ eng[e].pc = "contains"
    /\ LET link == Head(eng[e].links)
           r == eng[e].crawlingRules
       IN IF Contains(cache, String(r.baseDomain), String(link))
          THEN eng' = [eng EXCEPT ![e].linkCounter = @ - 1,
                                  ![e].links = Tail(@),
                                  ![e].pc = NextLink(eng[e].links, eng[e].stop)]
          ELSE eng' = [eng EXCEPT ![e].pc = "allowed"]
    /\ UNCHANGED <<config, crawl, cancelled, exited, cache, seen, workers, fetched, bus>>

\* A depth accounting that sets stop one admitted URL late.
DepthAfterSpawnLate(maxDepth, depth, stop) ==
    IF maxDepth = 0 \/ ~stop
    THEN <<depth + 1, maxDepth > 0 /\ depth + 1 > maxDepth>>
    ELSE <<depth, stop>>

\* The depth accounting of lines 253-256: <<depth, stop>> after a spawn.
DepthAfterSpawn(maxDepth, depth, stop) ==
    IF maxDepth = 0 \/ ~stop
    THEN <<depth + 1, maxDepth > 0 /\ depth + 1 >= maxDepth>>
    ELSE <<depth, stop>>

\* A worker goroutine as spawned (line 219): it has its link and the value
\* stop had when it was spawned.
\* A worker spawned without the value of stop.
NewWorkerNoSentinel(link, stopSentinel) ==
    [link |-> link, stopSentinel |-> FALSE, pc |-> "acquire",
     elems |-> <<>>, foundLinks |-> <<>>, err |-> FALSE, rt |-> 0,
     ahead |-> {}]

\* ahead is history, not a variable of the code: the workers of the engine
\* that were between the return of their FetchLinks and their Produce when
\* the FetchLinks of this worker returned. It is dropped once this worker
\* has produced or returned.
NewWorker(link, stopSentinel) ==
    [link |-> link, stopSentinel |-> stopSentinel, pc |-> "acquire",
     elems |-> <<>>, foundLinks |-> <<>>, err |-> FALSE, rt |-> 0,
     ahead |-> {}]

\* Allowed, second half: the result is computed and the deferred Set marks
\* the link visited. A rejected link is skipped; an allowed one gets a worker
\* and is counted by depth.
MainAllowedReturn(e) ==
    /\ ~exited
    /\ eng[e].pc = "allowed"
    /\ LET link == Head(eng[e].links)
           r == eng[e].crawlingRules
           d == DepthAfterSpawn(settings.MaxDepth, eng[e].depth, eng[e].stop)
       IN /\ cache' = CacheSet(cache, String(r.baseDomain), String(link))
          /\ IF ~AllowedResult(r, link)
             THEN /\ eng' = [eng EXCEPT ![e].linkCounter = @ - 1,
                                        ![e].links = Tail(@),
                                        ![e].pc = NextLink(eng[e].links, eng[e].stop)]
                  /\ UNCHANGED workers
             ELSE /\ eng' = [eng EXCEPT ![e].fetchWg = @ + 1,
                                        ![e].depth = d[1],
                                        ![e].stop = d[2],
                                        ![e].links = Tail(@),
                                        ![e].pc = NextLink(eng[e].links, d[2])]
                  /\ workers' = [workers EXCEPT ![e] =
                                    Append(@, NewWorker(link, eng[e].stop))]
    /\ UNCHANGED <<config, crawl, cancelled, exited, seen, fetched, bus>>

\* A timeout case that stops without looking at linkCounter.
QuietStopAlways(linkCounter, stop) == TRUE

\* A timeout case that never stops.
QuietStopNever(linkCounter, stop) == stop

\* A timeout case that stops with one URL still counted.
QuietStopAtOne(linkCounter, stop) == IF linkCounter <= 1 THEN TRUE ELSE stop

\* The body of the timeout case (lines 261-263): the value of stop after it.
QuietStop(linkCounter, stop) == IF linkCounter <= 0 THEN TRUE ELSE stop

\* case <-time.After(CrawlingTimeout): no batch arrived during the quiet
\* period and the context was not cancelled during it.
MainTimeout(e) ==
    /\ ~exited
    /\ eng[e].pc = "select"
    /\ eng[e].linksCh = <<>>
    /\ ~cancelled
    /\ LET stop == QuietStop(eng[e].linkCounter, eng[e].stop) IN
         eng' = [eng EXCEPT ![e].stop = stop, ![e].pc = LoopTo(stop)]
    /\ UNCHANGED <<config, crawl, cancelled, exited, cache, seen, workers, fetched, bus>>

\* case <-ctx.Done(): return, without fetchWg.Wait(); the deferred wg.Done()
\* runs.
MainCancelled(e) ==
    /\ ~exited
    /\ eng[e].pc = "select"
    /\ cancelled
    /\ eng' = [eng EXCEPT ![e].pc = "cancelled"]
    /\ crawl' = [crawl EXCEPT !.wg = @ - 1]
    /\ UNCHANGED <<config, cancelled, exited, cache, seen, workers, fetched, bus>>

\* A Wait that returns while workers are still counted.
WaitReturnsAtOnce(counter) == TRUE

\* sync.WaitGroup.Wait returns when the counter is zero.
WaitReturns(counter) == counter = 0

\* fetchWg.Wait() returns and crawlPage returns; the deferred wg.Done() runs.
MainWaitDone(e) ==
    /\ ~exited
    /\ eng[e].pc = "wait"
    /\ WaitReturns(eng[e].fetchWg)
    /\ eng' = [eng EXCEPT ![e].pc = "returned"]
    /\ crawl' = [crawl EXCEPT !.wg = @ - 1]
    /\ UNCHANGED <<config, cancelled, exited, cache, seen, workers, fetched, bus>>


(***************************************************************************)
(* The worker goroutine of crawlPage (lines 219-250).                      *)
(***************************************************************************)
\* semaphore <- struct{}{}: blocks while the semaphore is full.
WorkerAcquire(e, w) ==
    /\ ~exited
    /\ workers[e][w].pc = "acquire"
    /\ eng[e].semaphore < eng[e].semCap
    /\ eng' = [eng EXCEPT ![e].semaphore = @ + 1]
    /\ workers' = [workers EXCEPT ![e][w].pc = "fetch"]
    /\ UNCHANGED <<config, crawl, cancelled, exited, cache, seen, fetched, bus>>

\* A FetchLinks that takes every answer of the server for a page.
FetchFailsTransportOnly(res) == res.err

\* FetchLinks fails when the GET fails or answers a status >= 400.
FetchFails(res) == res.err \/ res.status >= StatusBadRequest

\* FetchLinks up to the point where extractLinks starts to walk the selected
\* elements: the GET, the status check, the parse of the body and the
\* selection. A failed fetch returns at once.
\* A worker that goes on to enqueue a fetch that found no link.
ReturnsEarlyOnErr(wk) == wk.err \/ wk.stopSentinel

\* Whether the worker returns before enqueueing (lines 235-243).
ReturnsEarly(wk) == wk.err \/ wk.stopSentinel \/ Len(wk.foundLinks) = 0

\* The workers of e, other than w, whose FetchLinks has returned and whose
\* result is still to be handed to the Producer (lines 234-246).
Ahead(e, w) ==
    {v \in Workers(e) \ {w} :
        \/ workers[e][v].pc = "enqueue"
        \/ workers[e][v].pc = "fetched" /\ ~ReturnsEarly(workers[e][v])}

\* The history kept by a worker whose next position is pc.
AheadAt(e, w, pc) == IF pc = "fetched" THEN Ahead(e, w) ELSE {}

WorkerFetch(e, w) ==
    /\ ~exited
    /\ workers[e][w].pc = "fetch"
    /\ LET target == String(workers[e][w].link)
           res == HttpGet(site, target)
           elems == ResolvedLinks(excludedExts, parseStartURL(target), res.doc)
       IN /\ fetched' = [fetched EXCEPT ![e] = Append(@, target)]
          /\ IF FetchFails(res)
             THEN workers' = [workers EXCEPT ![e][w].err = TRUE,
                                             ![e][w].rt = res.rt,
                                             ![e][w].pc = "fetched"]
             ELSE workers' = [workers EXCEPT ![e][w].rt = res.rt,
                                             ![e][w].elems = elems,
                                             ![e][w].pc = IF elems = <<>> THEN "fetched"
                                                          ELSE "load",
                                             ![e][w].ahead =
                                                 AheadAt(e, w, IF elems = <<>>
                                                               THEN "fetched" ELSE "load")]
    /\ UNCHANGED <<config, crawl, cancelled, exited, cache, seen, eng, bus>>

\* A LoadOrStore that never finds the key.
LoadOrStoreBlind(m, key) == <<FALSE, (key :> FALSE) @@ m>>

\* sync.Map.LoadOrStore(key, FALSE): <<the value now held, the map>>
LoadOrStore(m, key) ==
    IF key \in DOMAIN m THEN <<m[key], m>> ELSE <<FALSE, (key :> FALSE) @@ m>>

\* sync.Map.Store(key, TRUE)
Store(m, key) == (key :> TRUE) @@ m

\* Where extractLinks goes after the element at the head of elems.
NextElem(elems) == IF Tail(elems) = <<>> THEN "fetched" ELSE "load"

\* The Each callback of extractLinks, first half: LoadOrStore on the link. A
\* link held as TRUE is dropped; any other is appended to foundURLs.
WorkerLoadOrStore(e, w) ==
    /\ ~exited
    /\ workers[e][w].pc = "load"
    /\ LET link == Head(workers[e][w].elems)
           r == LoadOrStore(seen, String(link))
       IN /\ seen' = r[2]
          /\ IF r[1]
             THEN workers' = [workers EXCEPT ![e][w].elems = Tail(@),
                                             ![e][w].pc = NextElem(workers[e][w].elems),
                                             ![e][w].ahead =
                                                 AheadAt(e, w, NextElem(workers[e][w].elems))]
             ELSE workers' = [workers EXCEPT ![e][w].foundLinks = Append(@, link),
                                             ![e][w].pc = "store"]
    /\ UNCHANGED <<config, crawl, cancelled, exited, cache, eng, fetched, bus>>

\* The Each callback, second half: the link is stored as TRUE.
WorkerStore(e, w) ==
    /\ ~exited
    /\ workers[e][w].pc = "store"
    /\ seen' = Store(seen, String(Head(workers[e][w].elems)))
    /\ workers' = [workers EXCEPT ![e][w].elems = Tail(@),
                                  ![e][w].pc = NextElem(workers[e][w].elems),
                                  ![e][w].ahead =
                                      AheadAt(e, w, NextElem(workers[e][w].elems))]
    /\ UNCHANGED <<config, crawl, cancelled, exited, cache, eng, fetched, bus>>

\* A worker that counts its links whether it goes on to send them or not.
LinksCountedAlways(wk) == Len(wk.foundLinks)

\* What the worker adds to linkCounter after its fetch (line 244): nothing on
\* an early return.
LinksCounted(wk) == IF ReturnsEarly(wk) THEN 0 ELSE Len(wk.foundLinks)

\* A worker whose error return runs neither the sleep nor the release.
AfterFetchedErrSkipsRelease(wk) ==
    IF wk.err THEN "decrement" ELSE IF ReturnsEarly(wk) THEN "sleep" ELSE "enqueue"

\* Where the worker goes after UpdateLastDelay: an early return runs the
\* deferred calls, the first of them the sleep and release (lines 228-231).
AfterFetched(wk) == IF ReturnsEarly(wk) THEN "sleep" ELSE "enqueue"

\* FetchLinks has returned: UpdateLastDelay, then the early returns, else the
\* found links are added to linkCounter.
WorkerFetched(e, w) ==
    /\ ~exited
    /\ workers[e][w].pc = "fetched"
    /\ LET wk == workers[e][w] IN
         /\ eng' = [eng EXCEPT ![e].crawlingRules = UpdateLastDelay(@, wk.rt),
                               ![e].linkCounter = @ + LinksCounted(wk)]
         /\ workers' = [workers EXCEPT ![e][w].pc = AfterFetched(wk),
                                       ![e][w].ahead =
                                           IF AfterFetched(wk) = "enqueue" THEN @ ELSE {}]
    /\ UNCHANGED <<config, crawl, cancelled, exited, cache, seen, fetched, bus>>

\* A result that names the page and not its links.
ParsedResultNoLinks(link, foundLinks) == [url |-> String(link), links |-> <<>>]

\* ParsedResult{link.String(), foundLinksStr}
ParsedResult(link, foundLinks) ==
    [url |-> String(link), links |-> [i \in 1..Len(foundLinks) |-> String(foundLinks[i])]]

\* Producer.Produce: the errors it can return (TRUE: an error).
ProduceErrs(q) == IF q = "flaky" THEN {TRUE, FALSE} ELSE {FALSE}

\* A worker that gives up its links when Produce has failed.
AfterEnqueueAbort(err) == IF err THEN "sleep" ELSE "send"

\* Where the worker goes after enqueueResults: the error of Produce is logged
\* inside it and not returned, so line 248 is next either way.
AfterEnqueue(err) == "send"

\* enqueueResults: the result is marshalled and handed to the Producer; a
\* result whose Produce fails does not reach the queue.
WorkerEnqueueResults(e, w) ==
    /\ ~exited
    /\ workers[e][w].pc = "enqueue"
    /\ \E err \in ProduceErrs(producer) :
          /\ bus' = IF err THEN bus
                    ELSE Append(bus, [engine |-> e,
                                      result |-> ParsedResult(workers[e][w].link,
                                                              workers[e][w].foundLinks)])
          /\ workers' = [workers EXCEPT ![e][w].pc = AfterEnqueue(err),
                                        ![e][w].ahead = {}]
    /\ UNCHANGED <<config, crawl, cancelled, exited, cache, seen, eng, fetched>>

\* A send that does not block: a batch that finds the channel full is
\* given up.
WorkerSendOrDrop(e, w) ==
    /\ ~exited
    /\ workers[e][w].pc = "send"
    /\ eng' = IF Len(eng[e].linksCh) < eng[e].chCap
              THEN [eng EXCEPT ![e].linksCh = Append(@, workers[e][w].foundLinks)]
              ELSE eng
    /\ workers' = [workers EXCEPT ![e][w].pc = "sleep"]
    /\ UNCHANGED <<config, crawl, cancelled, exited, cache, seen, fetched, bus>>

\* linksCh <- foundLinks: blocks while the channel is full.
WorkerSend(e, w) ==
    /\ ~exited
    /\ workers[e][w].pc = "send"
    /\ Len(eng[e].linksCh) < eng[e].chCap
    /\ eng' = [eng EXCEPT ![e].linksCh = Append(@, workers[e][w].foundLinks)]
    /\ workers' = [workers EXCEPT ![e][w].pc = "sleep"]
    /\ UNCHANGED <<config, crawl, cancelled, exited, cache, seen, fetched, bus>>

\* The first deferred call: time.Sleep(CrawlDelay()) elapses and the
\* semaphore slot is released.
WorkerRelease(e, w) ==
    /\ ~exited
    /\ workers[e][w].pc = "sleep"
    /\ eng' = [eng EXCEPT ![e].semaphore = @ - 1]
    /\ workers' = [workers EXCEPT ![e][w].pc = "decrement"]
    /\ UNCHANGED <<config, crawl, cancelled, exited, cache, seen, fetched, bus>>

\* The second deferred call: atomic.AddInt32(&linkCounter, -1).
WorkerDecrement(e, w) ==
    /\ ~exited
    /\ workers[e][w].pc = "decrement"
    /\ eng' = [eng EXCEPT ![e].linkCounter = @ - 1]
    /\ workers' = [workers EXCEPT ![e][w].pc = "wgdone"]
    /\ UNCHANGED <<config, crawl, cancelled, exited, cache, seen, fetched, bus>>

\* The last deferred call: w.Done().
WorkerDone(e, w) ==
    /\ ~exited
    /\ workers[e][w].pc = "wgdone"
    /\ eng' = [eng EXCEPT ![e].fetchWg = @ - 1]
    /\ workers' = [workers EXCEPT ![e][w].pc = "done"]
    /\ UNCHANGED <<config, crawl, cancelled, exited, cache, seen, fetched, bus>>

(***************************************************************************)
(* Specification.                                                          *)
(***************************************************************************)
\* New(): the default parser and an empty cache; Crawl not yet in its loop.
InitObjects ==
    /\ crawl = [pc |-> "loop", i |-> 1, wg |-> 0]
    /\ cancelled = FALSE
    /\ exited = FALSE
    /\ cache = << >>
    /\ excludedExts = {}
    /\ seen = << >>
    /\ eng = <<>>
    /\ workers = <<>>
    /\ fetched = <<>>
    /\ bus = <<>>

\* The program as Crawl finds it; no unit exercise runs.
InitProgram ==
    /\ InitObjects
    /\ unit = <<>>

\* One seed on host "s", every concurrency and depth setting, with and
\* without a robots.txt.
Init ==
    /\ InitProgram
    /\ settings \in [Concurrency : 0..MaxConcurrency, MaxDepth : 0..MaxDepthSetting]
    /\ URLs = <<String(Seed)>>
    /\ site \in {"main", "mail"}
    /\ robotsTxt \in {"404", "ok"}
    /\ producer = "up"

EngineStep(e) ==
    \/ EngineStart(e)
    \/ EngineRobots(e)
    \/ MainReceive(e)
    \/ MainAllowedContains(e)
    \/ MainAllowedReturn(e)
    \/ MainTimeout(e)
    \/ MainCancelled(e)
    \/ MainWaitDone(e)

WorkerStep(e, w) ==
    \/ WorkerAcquire(e, w)
    \/ WorkerFetch(e, w)
    \/ WorkerLoadOrStore(e, w)
    \/ WorkerStore(e, w)
    \/ WorkerFetched(e, w)
    \/ WorkerEnqueueResults(e, w)
    \/ WorkerSend(e, w)
    \/ WorkerRelease(e, w)
    \/ WorkerDecrement(e, w)
    \/ WorkerDone(e, w)

Next ==
    \/ CrawlSpawn
    \/ CrawlDone
    \/ Signal
    \/ Exit
    \/ \E e \in Engines : EngineStep(e)
    \/ \E e \in Engines : \E w \in Workers(e) : WorkerStep(e, w)

Spec == Init /\ [][Next]_vars


(***************************************************************************)
(* The engine without cancellation, under fair scheduling: every           *)
(* concurrency of at least 1 and every depth setting.                      *)
(***************************************************************************)
InitQuiet ==
    /\ InitProgram
    /\ settings \in [Concurrency : 1..MaxConcurrency, MaxDepth : 0..MaxDepthSetting]
    /\ URLs = <<String(Seed)>>
    /\ site \in {"main", "mail"}
    /\ robotsTxt \in {"404", "ok"}
    /\ producer = "up"

EngineStepQuiet(e) ==
    \/ EngineStart(e)
    \/ EngineRobots(e)
    \/ MainReceive(e)
    \/ MainAllowedContains(e)
    \/ MainAllowedReturn(e)
    \/ MainTimeout(e)
    \/ MainWaitDone(e)

NextQuiet ==
    \/ CrawlSpawn
    \/ CrawlDone
    \/ \E e \in Engines : EngineStepQuiet(e)
    \/ \E e \in Engines : \E w \in Workers(e) : WorkerStep(e, w)

\* The Go scheduler runs a goroutine that can take a step: some enabled step
\* is eventually taken.
FairSpec == InitQuiet /\ [][NextQuiet]_vars /\ WF_vars(NextQuiet)

(***************************************************************************)
(* Properties.                                                             *)
(***************************************************************************)
Range(f) == {f[i] : i \in DOMAIN f}

\* The workers of engine e spawned for the URL string u: one per Allowed(u)
\* that returned true.
Admitted(e, u) == {w \in Workers(e) : String(workers[e][w].link) = u}

\* The places at which a worker holds a semaphore slot.
HoldingPcs == {"fetch", "load", "store", "fetched", "enqueue", "send", "sleep"}
Holding(e) == {w \in Workers(e) : workers[e][w].pc \in HoldingPcs}

\* crawlPage has returned after its loop ended and fetchWg.Wait() returned
\* (pc "cancelled": it has returned from the ctx.Done() case).
Returned(e) == eng[e].pc = "returned"

\* C1: within one engine each URL string is passed to FetchLinks at most
\* once, no two results of an engine carry the same url, and the url of every
\* result is one for which Allowed returned true exactly once.
C1_FetchedAtMostOnce ==
    /\ \A e \in 1..Len(fetched) : \A i, j \in 1..Len(fetched[e]) :
          fetched[e][i] = fetched[e][j] => i = j
    /\ \A i, j \in 1..Len(bus) :
          (bus[i].engine = bus[j].engine /\ bus[i].result.url = bus[j].result.url)
             => i = j
    /\ ~exited => \A i \in 1..Len(bus) :
                     Cardinality(Admitted(bus[i].engine, bus[i].result.url)) = 1

\* C1, its case: the main loop is at a link this engine has already fetched
\* and produced a result for, and Allowed is about to reject it as visited.
C1_Witness ==
    \E e \in Engines :
       /\ eng[e].pc = "contains"
       /\ LET u == String(Head(eng[e].links)) IN
            /\ Contains(cache, String(eng[e].crawlingRules.baseDomain), u)
            /\ u \in Range(fetched[e])
            /\ \E i \in 1..Len(bus) : bus[i].engine = e /\ bus[i].result.url = u

\* The concurrency a Concurrency setting stands for.
EffectiveConcurrency(c) == IF c >= 1 THEN c ELSE 1

C3_RobotsRespected ==
    \A e \in Engines :
       eng[e].crawlingRules.robotsGroup # <<>> =>
          /\ \A u \in Range(fetched[e]) :
                RobotsTest(eng[e].crawlingRules.robotsGroup[1], RequestURI(ParseURL(u)))
          /\ \A i \in 1..Len(bus) :
                bus[i].engine = e =>
                   RobotsTest(eng[e].crawlingRules.robotsGroup[1],
                              RequestURI(ParseURL(bus[i].result.url)))

\* C3, its case: the crawl has ended with robots rules loaded; the rejected
\* URL is in the links of the page that discovered it and was not fetched.
C3_Witness ==
    /\ crawl.pc = "done"
    /\ ~cancelled
    /\ \E e \in Engines :
          /\ eng[e].crawlingRules.robotsGroup # <<>>
          /\ \E i \in 1..Len(bus) :
                bus[i].engine = e /\ String(PageT) \in Range(bus[i].result.links)
          /\ String(PageT) \notin Range(fetched[e])

\* C4: every URL an engine fetches has the seed's host or no host.
C4_InDomainOnly ==
    \A e \in Engines : \A u \in Range(fetched[e]) :
       \/ Hostname(ParseURL(u)) = Hostname(eng[e].rootURL)
       \/ Hostname(ParseURL(u)) = ""

\* C4, its case: the crawl has ended; a link to a foreign host and a link to a
\* subdomain are in the links of emitted results and neither was fetched.
C4_Witness ==
    /\ crawl.pc = "done"
    /\ ~cancelled
    /\ \E e \in Engines :
          /\ \E i \in 1..Len(bus) :
                bus[i].engine = e /\ String(PageX) \in Range(bus[i].result.links)
          /\ \E i \in 1..Len(bus) :
                bus[i].engine = e /\ String(PageSub) \in Range(bus[i].result.links)
          /\ String(PageX) \notin Range(fetched[e])
          /\ String(PageSub) \notin Range(fetched[e])

(***************************************************************************)
(* The link graph an engine can walk.                                      *)
(***************************************************************************)
\* The rules of engine e once its robots.txt fetch is over.
RulesOf(e) ==
    GetRobotsTxtGroup(NewCrawlingRules(eng[e].rootURL, defaultPolitenessDelay),
                      eng[e].rootURL)

\* The links FetchLinks hands back for the URL string u when the parser has
\* seen none of them: none when the fetch fails.
LinksOf(u) ==
    IF FetchFails(HttpGet(site, u)) THEN {}
    ELSE Range(ResolvedLinks(excludedExts, parseStartURL(u), HttpGet(site, u).doc))

\* The URL strings reachable from those of S through links that Allowed
\* admits.
RECURSIVE ReachFrom(_, _)
ReachFrom(r, S) ==
    LET next == S \cup {String(l) : l \in {k \in UNION {LinksOf(u) : u \in S} :
                                              AllowedResult(r, k)}}
    IN IF next = S THEN S ELSE ReachFrom(r, next)

\* The in-domain, robots-allowed URL strings reachable from the seed of e.
Reachable(e) ==
    IF AllowedResult(RulesOf(e), eng[e].rootURL)
    THEN ReachFrom(RulesOf(e), {String(eng[e].rootURL)})
    ELSE {}

\* Engine 1 has fetched every URL it can reach.
AllFetched == Len(eng) >= 1 /\ Reachable(1) \subseteq Range(fetched[1])

\* C5: with MaxDepth = 0 and no cancellation, every in-domain, robots-allowed
\* URL reachable from the seed is eventually fetched and the engine returns
\* only after that: the engine eventually returns, and whenever it has
\* returned all of them have been fetched.
C5_AllReachableFetched ==
    settings.MaxDepth = 0 =>
       /\ <>(Len(eng) >= 1 /\ Returned(1))
       /\ []((Len(eng) >= 1 /\ Returned(1)) => AllFetched)

\* C5, its case: an unlimited engine has returned from a walk that took it
\* over four pages, through links found on pages other than the seed.
C5_Witness ==
    /\ settings.MaxDepth = 0
    /\ Len(eng) >= 1
    /\ Returned(1)
    /\ Cardinality(Reachable(1)) = 4
    /\ AllFetched

\* The engine is in its select with nothing counted as outstanding and no
\* batch in the frontier.
Exhausted(e) ==
    /\ eng[e].pc = "select"
    /\ eng[e].linkCounter <= 0
    /\ eng[e].linksCh = <<>>

\* C6: from a select with linkCounter <= 0 and no batch in the frontier the
\* main goroutine goes nowhere but out of its loop, with stop set, and under
\* fair scheduling an engine whose work is exhausted eventually returns.
C6_QuietPeriodTerminates ==
    /\ [][\A e \in Engines :
            (/\ e \in 1..Len(eng')
             /\ Exhausted(e)
             /\ eng'[e].pc # "select")
               => eng'[e].stop /\ eng'[e].pc = "wait"]_vars
    /\ (Len(eng) >= 1 /\ Exhausted(1)) ~> (Len(eng) >= 1 /\ Returned(1))

\* C6, its case: an engine without a depth limit, stopped by the quiet
\* period, is past its loop and waits for workers that are all done.
C6_Witness ==
    \E e \in Engines :
       /\ settings.MaxDepth = 0
       /\ eng[e].pc = "wait"
       /\ eng[e].stop
       /\ eng[e].linkCounter <= 0
       /\ eng[e].fetchWg = 0
       /\ Len(workers[e]) >= 2

\* C7: no worker is blocked for good. A worker is: it waits to send its links
\* to a full frontier from which the main goroutine, past its loop and in
\* fetchWg.Wait(), will never receive again.
C7_NoWorkerBlockedForever ==
    \A e \in Engines :
       (settings.Concurrency >= 1 /\ ~cancelled /\ eng[e].pc = "wait") =>
          \A w \in Workers(e) :
             ~(workers[e][w].pc = "send" /\ Len(eng[e].linksCh) >= eng[e].chCap)

\* C8: with MaxDepth = N > 0 an engine calls FetchLinks at most N times.
C8_AtMostMaxDepthFetches ==
    \A e \in Engines :
       settings.MaxDepth > 0 => Len(fetched[e]) <= settings.MaxDepth

Min(a, b) == IF a <= b THEN a ELSE b

C10_CancelSkipsWait ==
    [][\A e \in Engines :
          (/\ e \in 1..Len(eng')
           /\ cancelled
           /\ eng[e].pc \in {"select", "contains", "allowed"})
             => eng'[e].pc # "wait"]_vars

(***************************************************************************)
(* Crawl called with the same seed string twice: two engines whose rules   *)
(* share the cache and the visited namespace, each admitting one URL.      *)
(***************************************************************************)
InitTwin ==
    /\ InitProgram
    /\ settings = [Concurrency |-> 1, MaxDepth |-> 1]
    /\ URLs = <<String(Seed), String(Seed)>>
    /\ site = "mail"
    /\ robotsTxt \in {"404", "ok"}
    /\ producer = "up"

TwinSpec == InitTwin /\ [][Next]_vars

\* The visited namespace of engine e.
Namespace(e) == String(eng[e].crawlingRules.baseDomain)

\* C11: of two callers of Allowed on the same URL in the same namespace at
\* most one gets true: two engines of one namespace never both spawn a worker
\* for the same URL string.
C11_OneCallerAdmitted ==
    \A e1, e2 \in Engines :
       (e1 # e2 /\ Namespace(e1) = Namespace(e2)) =>
          \A w1 \in Workers(e1) : \A w2 \in Workers(e2) :
             String(workers[e1][w1].link) # String(workers[e2][w2].link)

(***************************************************************************)
(* CrawlingRules and memoryCache exercised on their own by one caller, as  *)
(* in TestCrawlingRules and TestCacheSet: any sequence of Set, Allowed and *)
(* GetRobotsTxtGroup calls. unit holds the rules, the last call with its   *)
(* result, and what the calls so far have asked.                           *)
(***************************************************************************)
\* The namespaces and keys Set is called with, and the links Allowed is
\* called with: in-domain, robots-disallowed, foreign.
UnitNamespaces == {String(Seed), "other"}
UnitLinks == {PageA, PageT, PageX}
UnitKeys == {String(l) : l \in UnitLinks}

\* No call made yet.
NoCall == [op |-> "none"]

NewUnit(fixedDelay) ==
    [rules |-> NewCrawlingRules(Seed, fixedDelay), last |-> NoCall,
     sets |-> {}, asked |-> {}, grants |-> [k \in UnitKeys |-> 0]]

\* The crawler stays idle while the unit is exercised.
UnitFrame == <<settings, URLs, site, robotsTxt, producer, excludedExts, crawl,
               cancelled, exited, seen, eng, workers, fetched, bus>>

InitUnit ==
    /\ InitObjects
    /\ settings = [Concurrency |-> 1, MaxDepth |-> 0]
    /\ URLs = <<>>
    /\ site = "main"
    /\ producer = "up"

\* cache.Set(ns, k)
UnitSet ==
    \E ns \in UnitNamespaces : \E k \in UnitKeys :
       /\ cache' = CacheSet(cache, ns, k)
       /\ unit' = [unit EXCEPT !.last = [op |-> "Set", ns |-> ns, key |-> k,
                                         repeat |-> <<ns, k>> \in unit.sets],
                               !.sets = @ \cup {<<ns, k>>}]
       /\ UNCHANGED UnitFrame

\* r.Allowed(link)
UnitAllowed ==
    \E link \in UnitLinks :
       LET k == String(link)
           ns == String(unit.rules.baseDomain)
           visited == Contains(cache, ns, k)
           a == Allowed(cache, unit.rules, link)
       IN /\ cache' = a[2]
          /\ unit' = [unit EXCEPT
                        !.last = [op |-> "Allowed", link |-> link, result |-> a[1],
                                  visited |-> visited, again |-> k \in unit.asked],
                        !.sets = IF visited THEN @ ELSE @ \cup {<<ns, k>>},
                        !.asked = @ \cup {k},
                        !.grants = [@ EXCEPT ![k] = IF a[1] THEN @ + 1 ELSE @]]
          /\ UNCHANGED UnitFrame

\* r.GetRobotsTxtGroup(userAgent, serverURL)
UnitGetRobotsTxtGroup ==
    /\ unit' = [unit EXCEPT
                  !.rules = GetRobotsTxtGroup(@, @.baseDomain),
                  !.last = [op |-> "GetRobotsTxtGroup",
                            result |-> GetRobotsTxtGroupOk(unit.rules.baseDomain)]]
    /\ UNCHANGED <<cache, UnitFrame>>

InitRules ==
    /\ InitUnit
    /\ robotsTxt \in {"404", "ok", "error", "garbage"}
    /\ unit = NewUnit(defaultPolitenessDelay)

NextRules ==
    \/ UnitSet
    \/ UnitAllowed
    \/ UnitGetRobotsTxtGroup

RulesSpec == InitRules /\ [][NextRules]_vars

\* C12: for one policy Allowed(u) returns true at most once per URL string;
\* a call marks u visited whatever it returns, and a call on a URL asked
\* before returns false, robots rules loaded in between or not.
C12_AllowedAtMostOnce ==
    /\ \A k \in UnitKeys : unit.grants[k] <= 1
    /\ \A k \in unit.asked : Contains(cache, String(unit.rules.baseDomain), k)
    /\ (unit.last.op = "Allowed" /\ unit.last.again) => ~unit.last.result

\* C12, its case: as in TestCrawlingRules, a link was allowed before the
\* robots rules were loaded and has just been asked again after; so were the
\* foreign link and the link the rules disallow.
C12_Witness ==
    /\ unit.last.op = "Allowed"
    /\ unit.last.again
    /\ unit.last.link = PageA
    /\ unit.grants[String(PageA)] = 1
    /\ unit.grants[String(PageT)] = 1
    /\ unit.rules.robotsGroup # <<>>
    /\ unit.asked = UnitKeys

\* C14: Contains(ns, k) is true iff a Set(ns, k) with that namespace and key
\* has completed: false for a namespace never set, for a key set under another
\* namespace only and for a key never set; no call takes a key away; and a
\* second Set(ns, k) leaves the cache as the first left it.
C14_ContainsIffSet ==
    /\ \A ns \in UnitNamespaces \cup {"unknown"} : \A k \in UnitKeys :
          Contains(cache, ns, k) <=> <<ns, k>> \in unit.sets
    /\ \A ns \in UnitNamespaces : \A k \in UnitKeys :
          CacheSet(CacheSet(cache, ns, k), ns, k) = CacheSet(cache, ns, k)

\* C14, its case: a key has just been set a second time in a namespace that
\* holds another key as well, and it is set in no other namespace.
C14_Witness ==
    /\ unit.last.op = "Set"
    /\ unit.last.ns = "other"
    /\ unit.last.key = String(PageA)
    /\ unit.last.repeat
    /\ unit.sets = {<<"other", String(PageA)>>, <<"other", String(PageX)>>}
    /\ ~Contains(cache, String(Seed), String(PageA))

\* C13: across all the Parse calls of the one parser, concurrent ones
\* included, each URL string is returned at most once: no two places in the
\* foundURLs of the workers hold the same URL string.
C13_ParserEmitsOnce ==
    \A e1, e2 \in Engines : \A w1 \in Workers(e1) : \A w2 \in Workers(e2) :
       \A i1 \in 1..Len(workers[e1][w1].foundLinks) :
          \A i2 \in 1..Len(workers[e2][w2].foundLinks) :
             String(workers[e1][w1].foundLinks[i1]) = String(workers[e2][w2].foundLinks[i2])
                => <<e1, w1, i1>> = <<e2, w2, i2>>

(***************************************************************************)
(* The delays of CrawlingRules exercised on their own: any sequence of     *)
(* CrawlDelay, UpdateLastDelay and GetRobotsTxtGroup calls, for each fixed *)
(* delay. Durations are in milliseconds.                                   *)
(***************************************************************************)
FixedDelays == (0..MaxFixedDelay) \cup {100, defaultPolitenessDelay}
ResponseTimes == {500 * k : k \in 0..MaxResponseHalfSeconds}

\* r.CrawlDelay()
UnitCrawlDelay ==
    \E randomDelay \in randDelay(unit.rules.fixedDelay) :
       /\ unit' = [unit EXCEPT !.last = [op |-> "CrawlDelay", random |-> randomDelay,
                                         result |-> CrawlDelay(unit.rules, randomDelay)]]
       /\ UNCHANGED <<cache, UnitFrame>>

\* r.UpdateLastDelay(lastResponseTime)
UnitUpdateLastDelay ==
    \E rt \in ResponseTimes :
       /\ unit' = [unit EXCEPT !.rules = UpdateLastDelay(@, rt),
                               !.last = [op |-> "UpdateLastDelay", rt |-> rt]]
       /\ UNCHANGED <<cache, UnitFrame>>

InitDelay ==
    /\ InitUnit
    /\ robotsTxt \in {"404", "ok"}
    /\ \E fixedDelay \in FixedDelays : unit = NewUnit(fixedDelay)

NextDelay ==
    \/ UnitCrawlDelay
    \/ UnitUpdateLastDelay
    \/ UnitGetRobotsTxtGroup

DelaySpec == InitDelay /\ [][NextDelay]_vars

\* The crawl delay of the robots group, 0 when none is set.
RobotsDelay(r) == IF r.robotsGroup # <<>> THEN r.robotsGroup[1].crawlDelay ELSE 0

\* C15: for a fixed delay f > 0 the jittered value lies between 0.5*f and
\* 1.5*f, so that CrawlDelay returns the robots delay D whenever
\* lastDelay <= D and 1.5*f <= D.
C15_JitterWithinHalfAndOneAndHalf ==
    (unit.last.op = "CrawlDelay" /\ unit.rules.fixedDelay > 0) =>
       /\ 2 * unit.last.random >= unit.rules.fixedDelay
       /\ 2 * unit.last.random <= 3 * unit.rules.fixedDelay
       /\ (/\ unit.rules.robotsGroup # <<>>
           /\ unit.rules.lastDelay <= RobotsDelay(unit.rules)
           /\ 3 * unit.rules.fixedDelay <= 2 * RobotsDelay(unit.rules))
             => unit.last.result = RobotsDelay(unit.rules)

C17_LastDelayIsSquare ==
    unit.last.op = "UpdateLastDelay" =>
       unit.rules.lastDelay * 1000 = unit.last.rt * unit.last.rt

\* For each site, the URL strings whose GET fails or is answered with a
\* status >= 400.
FailingURLs ==
    [s \in {"main", "mail"} |->
        {u \in {String(k) : k \in KnownURLs} :
            HttpGet(s, u).err \/ HttpGet(s, u).status >= StatusBadRequest}]

\* The GET of the URL string u fails or is answered with a status >= 400.
Failing(u) == u \in FailingURLs[site]

\* The workers of engine e whose FetchLinks call has returned an error.
FailedWorkers(e) ==
    {w \in Workers(e) : /\ workers[e][w].pc \notin {"acquire", "fetch"}
                        /\ Failing(String(workers[e][w].link))}

\* C18: a worker whose FetchLinks call fails has its error seen, emits no
\* result and sends no batch, and its URL stays visited; it still updates
\* lastDelay, releases its slot after the sleep and decrements linkCounter
\* once, on its way out.
C18_FailedFetchIsDropped ==
    /\ [](\A e \in Engines : \A w \in FailedWorkers(e) :
             LET wk == workers[e][w] IN
               /\ wk.err
               /\ wk.foundLinks = <<>>
               /\ wk.pc \in {"fetched", "sleep", "decrement", "wgdone", "done"}
               /\ \A i \in 1..Len(bus) :
                     ~(bus[i].engine = e /\ bus[i].result.url = String(wk.link))
               /\ Contains(cache, Namespace(e), String(wk.link)))
    /\ [][\A e \in Engines : \A w \in FailedWorkers(e) :
            (e \in 1..Len(eng') /\ workers'[e][w].pc # workers[e][w].pc) =>
               LET wk == workers[e][w] IN
                 /\ eng'[e].linksCh = eng[e].linksCh
                 /\ wk.pc = "fetched" =>
                       /\ workers'[e][w].pc = "sleep"
                       /\ eng'[e].crawlingRules = UpdateLastDelay(eng[e].crawlingRules, wk.rt)
                       /\ eng'[e].linkCounter = eng[e].linkCounter
                 /\ wk.pc = "sleep" =>
                       /\ workers'[e][w].pc = "decrement"
                       /\ eng'[e].semaphore = eng[e].semaphore - 1
                       /\ eng'[e].linkCounter = eng[e].linkCounter
                 /\ wk.pc = "decrement" =>
                       /\ workers'[e][w].pc = "wgdone"
                       /\ eng'[e].linkCounter = eng[e].linkCounter - 1
                 /\ wk.pc = "wgdone" =>
                       /\ workers'[e][w].pc = "done"
                       /\ eng'[e].linkCounter = eng[e].linkCounter]_vars

\* C18, its case: the fetch of the mail address failed, the page found with
\* it was fetched after it, and the engine has returned.
C18_Witness ==
    \E e \in Engines :
       /\ Returned(e)
       /\ fetched[e] = <<String(Seed), String(MailTo), String(PageT)>>
       /\ \E w \in FailedWorkers(e) : workers[e][w].pc = "done"
       /\ \E i \in 1..Len(bus) : bus[i].engine = e /\ bus[i].result.url = String(PageT)

(***************************************************************************)
(* The unlimited engine without cancellation, with a Producer whose        *)
(* Produce may return an error on any call.                                *)
(***************************************************************************)
InitFlaky ==
    /\ InitProgram
    /\ settings \in [Concurrency : 1..MaxConcurrency, MaxDepth : {0}]
    /\ URLs = <<String(Seed)>>
    /\ site \in {"main", "mail"}
    /\ robotsTxt \in {"404", "ok"}
    /\ producer = "flaky"

FlakySpec == InitFlaky /\ [][NextQuiet]_vars

\* The workers of engine e that called enqueueResults and whose result did
\* not reach the queue.
ProduceFailed(e) ==
    {w \in Workers(e) :
        /\ workers[e][w].pc \in {"send", "sleep", "decrement", "wgdone", "done"}
        /\ ~ReturnsEarly(workers[e][w])
        /\ \A i \in 1..Len(bus) :
              ~(bus[i].engine = e /\ bus[i].result.url = String(workers[e][w].link))}

\* C19: whatever Produce returns, the worker goes on from enqueueResults to
\* the send with the engine's counters as they were, the send puts all its
\* found links on the frontier, and the engine returns only after every
\* reachable URL was fetched.
C19_ProduceErrorNotPropagated ==
    /\ [][\A e \in Engines : \A w \in Workers(e) :
            (workers[e][w].pc = "enqueue" /\ workers'[e][w].pc # "enqueue") =>
               /\ workers'[e][w] = [workers[e][w] EXCEPT !.pc = "send", !.ahead = {}]
               /\ eng' = eng]_vars
    /\ [][\A e \in Engines : \A w \in Workers(e) :
            (workers[e][w].pc = "send" /\ workers'[e][w].pc # "send") =>
               /\ eng'[e].linksCh = Append(eng[e].linksCh, workers[e][w].foundLinks)
               /\ eng'[e].linkCounter = eng[e].linkCounter]_vars
    /\ []((Len(eng) >= 1 /\ Returned(1)) => AllFetched)

\* C19, its case: every Produce of a crawl over four pages failed, and the
\* engine has fetched them all and returned.
C19_Witness ==
    /\ producer = "flaky"
    /\ Len(eng) >= 1
    /\ Returned(1)
    /\ bus = <<>>
    /\ Cardinality(ProduceFailed(1)) >= 2
    /\ Cardinality(Reachable(1)) = 4
    /\ AllFetched

(***************************************************************************)
(* The crawl of one seed against a server whose robots.txt is missing,     *)
(* unreachable, unparsable or well formed.                                 *)
(***************************************************************************)
InitRobots ==
    /\ InitProgram
    /\ settings \in [Concurrency : 1..MaxConcurrency, MaxDepth : {0}]
    /\ URLs = <<String(Seed)>>
    /\ site = "main"
    /\ robotsTxt \in {"404", "error", "garbage", "ok"}
    /\ producer = "up"

RobotsSpec == InitRobots /\ [][Next]_vars

\* The fetch of the robots.txt of domain fails, finds none, or gets a body
\* that does not parse.
RobotsFetchFails(domain) ==
    LET res == RobotsFetch(String(ResolveReference(domain, robotsTxtPath)))
    IN res.err \/ res.status = StatusNotFound \/ ~res.parses

\* The main goroutine of engine e takes the step: it moves on in its batch
\* or to another place.
MainStepped(e) == eng'[e].pc # eng[e].pc \/ eng'[e].links # eng[e].links

\* C20: when the robots.txt fetch fails, gets a 404 or an unparsable body,
\* GetRobotsTxtGroup returns false and robotsGroup stays unset; the engine
\* goes on to its loop, and a link gets a worker exactly when it is not yet
\* visited and is in the seed's domain.
C20_NoRobotsAllowsInDomain ==
    /\ [](\A e \in Engines :
             RobotsFetchFails(eng[e].rootURL) =>
                /\ ~GetRobotsTxtGroupOk(eng[e].rootURL)
                /\ eng[e].crawlingRules.robotsGroup = <<>>)
    /\ [][\A e \in Engines :
            (e \in 1..Len(eng') /\ RobotsFetchFails(eng[e].rootURL)) =>
               /\ (eng[e].pc = "robots" /\ eng'[e].pc # "robots") =>
                     eng'[e].pc = "select"
               /\ (eng[e].pc = "contains" /\ MainStepped(e)) =>
                     (eng'[e].pc = "allowed"
                        <=> ~Contains(cache, Namespace(e), String(Head(eng[e].links))))
               /\ (eng[e].pc = "allowed" /\ MainStepped(e)) =>
                     /\ Contains(cache', Namespace(e), String(Head(eng[e].links)))
                     /\ IF subdomain(eng[e].rootURL, Head(eng[e].links))
                        THEN workers'[e] =
                                Append(workers[e],
                                       NewWorker(Head(eng[e].links), eng[e].stop))
                        ELSE workers'[e] = workers[e]]_vars

\* C20, its case: the robots.txt was unparsable or could not be fetched; the
\* crawl has ended with the page a well-formed robots.txt disallows fetched
\* and the foreign link found and not fetched.
C20_Witness ==
    /\ robotsTxt \in {"garbage", "error"}
    /\ crawl.pc = "done"
    /\ ~cancelled
    /\ \E e \in Engines :
          /\ Returned(e)
          /\ ~RobotsTest(RobotsGroupS, RequestURI(PageT))
          /\ String(PageT) \in Range(fetched[e])
          /\ \E i \in 1..Len(bus) :
                bus[i].engine = e /\ String(PageX) \in Range(bus[i].result.links)
          /\ String(PageX) \notin Range(fetched[e])

(***************************************************************************)
(* Crawl called with a seed list that holds a string url.Parse rejects,    *)
(* before or after a good seed, and with the good seed alone.              *)
(***************************************************************************)
BadSeed == CHOOSE b \in BadURLStrings : TRUE

InitSeeds ==
    /\ InitProgram
    /\ settings \in [Concurrency : {1}, MaxDepth : {0, 1}]
    /\ URLs \in {<<String(Seed)>>, <<String(Seed), BadSeed>>, <<BadSeed, String(Seed)>>}
    /\ site = "mail"
    /\ robotsTxt \in {"404", "ok"}
    /\ producer = "up"

SeedsSpec == InitSeeds /\ [][Next]_vars

\* C21: a seed that does not parse is skipped: unless a signal came in the
\* process is alive, and every seed before the position of Crawl that parses
\* has its engine.
C21_BadSeedSkipped ==
    ~cancelled =>
       /\ ~exited
       /\ Len(eng) = Cardinality({i \in 1..Len(URLs) : i < crawl.i /\ ParseOK(URLs[i])})

(***************************************************************************)
(* Crawl called with two seeds on different hosts: the second host serves  *)
(* no page.                                                                *)
(***************************************************************************)
InitPair ==
    /\ InitProgram
    /\ settings \in [Concurrency : {1}, MaxDepth : {0, 1}]
    /\ URLs = <<String(Seed), String(XSeed)>>
    /\ site = "mail"
    /\ robotsTxt \in {"404", "ok"}
    /\ producer = "up"

PairSpec == InitPair /\ [][Next]_vars

\* C22: while the process lives Crawl has spawned one engine for each seed
\* it has gone over, in order; it has returned only with an engine for every
\* seed and all of them returned; and without cancellation an engine that has
\* returned has no worker short of its end, so none runs when Crawl returns.
C22_CrawlWaitsForEngines ==
    ~exited =>
       /\ Len(eng) = crawl.i - 1
       /\ \A e \in Engines : String(eng[e].rootURL) = URLs[e]
       /\ crawl.pc = "done" =>
             /\ Len(eng) = Len(URLs)
             /\ \A e \in Engines : eng[e].pc \in {"returned", "cancelled"}
       /\ ~cancelled =>
             /\ \A e \in Engines :
                   Returned(e) => \A w \in Workers(e) : workers[e][w].pc = "done"
             /\ crawl.pc = "done" =>
                   \A e \in Engines : \A w \in Workers(e) : workers[e][w].pc = "done"

\* C22, its case: Crawl has returned without cancellation from two seeds; the
\* engine of the first spawned three workers and that of the second one.
C22_Witness ==
    /\ crawl.pc = "done"
    /\ ~cancelled
    /\ Len(eng) = 2
    /\ Len(workers[1]) = 3
    /\ Len(workers[2]) = 1
    /\ \A e \in Engines : \A w \in Workers(e) : workers[e][w].pc = "done"

(***************************************************************************)
(* GoqueryParser on its own, the way the parser tests use it: a new        *)
(* parser, extensions excluded, one document parsed.                       *)
(***************************************************************************)
\* The Each callback of extractLinks run over the resolved links by one
\* caller: <<foundURLs, seen>> at the end.
RECURSIVE ExtractLinks(_, _, _)
ExtractLinks(m, elems, foundURLs) ==
    IF elems = <<>> THEN <<foundURLs, m>>
    ELSE LET link == Head(elems)
             r == LoadOrStore(m, String(link))
         IN IF r[1]
            THEN ExtractLinks(r[2], Tail(elems), foundURLs)
            ELSE ExtractLinks(Store(r[2], String(link)), Tail(elems),
                              Append(foundURLs, link))

\* Parse with no other caller running: <<the links returned, seen>>
Parse(m, exts, baseURL, doc) ==
    ExtractLinks(m, ResolvedLinks(exts, baseURL, doc), <<>>)

\* The href attributes of the documents: none, a relative path, a path with
\* an extension, a URL on another host.
UnitHrefs ==
    {[has |-> FALSE, href |-> Rel(FALSE, ""), ext |-> "", parses |-> TRUE],
     [has |-> TRUE, href |-> Rel(FALSE, "foo/bar"), ext |-> "", parses |-> TRUE],
     [has |-> TRUE, href |-> Rel(TRUE, "doc.pdf"), ext |-> ".pdf", parses |-> TRUE],
     [has |-> TRUE, href |-> MkURL("https", "example.com", "", TRUE, "sample-page/"),
      ext |-> "", parses |-> TRUE]}

\* An <a> whose href url.Parse rejects.
BadAnchor == [Anchor(Rel(FALSE, "")) EXCEPT !.parses = FALSE]

\* The elements of the documents: <a> and <link> with every rel and href,
\* an <img> and the <a> with the bad href.
UnitElements ==
    {[tag |-> t, hasRel |-> r # "", rel |-> r, hasHref |-> h.has,
      href |-> h.href, ext |-> h.ext, parses |-> h.parses] :
        t \in {"a", "link"}, r \in {"", "canonical", "stylesheet"}, h \in UnitHrefs}
    \cup {Img, BadAnchor}

\* The page of TestGoqueryParsePage.
TestPage ==
    <<Canonical(MkURL("https", "example.com", "", TRUE, "sample-page/")),
      Canonical(Abs("s", "sample-page/")),
      Anchor(Rel(FALSE, "foo/bar")), Img, Img, Anchor(Rel(FALSE, "foo/bar"))>>

UnitDocs == UNION {[1..n -> UnitElements] : n \in 0..MaxDocLen} \cup {TestPage}

UnitBase == String(MkURL("http", "s", "", FALSE, ""))

\* The crawler stays idle while the parser is exercised.
ParserFrame == <<settings, URLs, site, robotsTxt, producer, crawl, cancelled,
                 exited, cache, eng, workers, fetched, bus>>

\* NewGoqueryParser()
UnitNewParser ==
    /\ seen # << >> \/ excludedExts # {}
    /\ seen' = << >>
    /\ excludedExts' = {}
    /\ unit' = [last |-> NoCall]
    /\ UNCHANGED ParserFrame

\* p.ExcludeExtensions(ext), before the parser is used
UnitExcludeExtensions ==
    /\ unit.last.op = "none"
    /\ \E ext \in {".pdf"} : excludedExts' = excludedExts \cup {ext}
    /\ UNCHANGED <<seen, unit, ParserFrame>>

\* p.Parse(baseURL, doc) on a parser that has parsed nothing yet
UnitParse ==
    /\ unit.last.op = "none"
    /\ \E doc \in UnitDocs :
          LET res == Parse(seen, excludedExts, UnitBase, doc) IN
            /\ seen' = res[2]
            /\ unit' = [last |-> [op |-> "Parse", baseURL |-> UnitBase,
                                  doc |-> doc, out |-> res[1]]]
    /\ UNCHANGED <<excludedExts, ParserFrame>>

InitParser ==
    /\ InitUnit
    /\ robotsTxt = "404"
    /\ unit = [last |-> NoCall]

NextParser ==
    \/ UnitNewParser
    \/ UnitExcludeExtensions
    \/ UnitParse

ParserSpec == InitParser /\ [][NextParser]_vars

\* The URL an href stands for under baseURL.
Resolved(baseURL, el) ==
    IF Hostname(el.href) # "" THEN el.href
    ELSE ResolveReference(ParseURL(baseURL), el.href)

\* The URL strings of a sequence of URLs.
Strings(links) == [i \in 1..Len(links) |-> String(links[i])]

\* An <a> with an href whose extension is not excluded, or a <link> with
\* rel="canonical" and an href.
SelectedAsDocumented(exts, el) ==
    \/ el.tag = "a" /\ el.hasHref /\ el.ext \notin exts
    \/ el.tag = "link" /\ el.hasRel /\ el.rel = "canonical" /\ el.hasHref

\* C23: the URLs Parse returns for a document are those of its elements that
\* are an <a> with an href of a non-excluded extension or a <link> with
\* rel="canonical" and an href, and of no other element.
C23_SelectsAnchorsAndCanonicals ==
    unit.last.op = "Parse" =>
       Range(Strings(unit.last.out)) =
          {String(Resolved(unit.last.baseURL, el)) :
              el \in {x \in Range(unit.last.doc) :
                         SelectedAsDocumented(excludedExts, x) /\ x.parses}}

\* s without the elements that print like an earlier one.
RECURSIVE FirstOccurrences(_, _)
FirstOccurrences(s, acc) ==
    IF s = <<>> THEN acc
    ELSE FirstOccurrences(Tail(s),
                          IF \E k \in 1..Len(acc) : String(acc[k]) = String(Head(s))
                          THEN acc ELSE Append(acc, Head(s)))

C25_ForeignCanonicalDropped ==
    (unit.last.op = "Parse" /\ unit.last.doc = TestPage) =>
       Strings(unit.last.out) = <<"http://s/sample-page/", "http://s/foo/bar">>

\* The sum of the lengths of the sequences of s.
RECURSIVE SumLen(_)
SumLen(s) == IF s = <<>> THEN 0 ELSE Len(Head(s)) + SumLen(Tail(s))

\* The URLs of engine e that are counted and not yet disposed of: the root
\* before it is enqueued, the URLs of the batches in the frontier, those of
\* the batches workers have counted and not yet sent, those of the batch the
\* main loop is going through, and one for each worker short of its
\* decrement.
Undisposed(e) ==
    (IF eng[e].pc = "start" THEN 1 ELSE 0)
    + SumLen(eng[e].linksCh)
    + SumLen([w \in Workers(e) |->
                 IF workers[e][w].pc \in {"enqueue", "send"}
                 THEN workers[e][w].foundLinks ELSE <<>>])
    + Len(eng[e].links)
    + Cardinality({w \in Workers(e) : workers[e][w].pc \notin {"wgdone", "done"}})

\* C26: in every state of an engine linkCounter is the number of URLs
\* counted and not yet disposed of, and it is not negative.
C26_InFlightCountsUndisposed ==
    \A e \in Engines :
       /\ eng[e].linkCounter = Undisposed(e)
       /\ eng[e].linkCounter >= 0

\* C26, its case: a batch waits in the frontier, a worker is about to send
\* another and a worker is past its decrement.
C26_Witness ==
    \E e \in Engines :
       /\ eng[e].linksCh # <<>>
       /\ \E w \in Workers(e) : workers[e][w].pc = "send"
       /\ \E w \in Workers(e) : workers[e][w].pc = "done"
       /\ eng[e].linkCounter >= 4

\* The main goroutine of engine e sets stop in its timeout case.
QuietStopStep(e) ==
    /\ e \in 1..Len(eng')
    /\ eng[e].pc = "select"
    /\ ~eng[e].stop
    /\ eng'[e].stop

\* C27, as stated: the timeout case sets stop only when the frontier is
\* empty, no worker is about to send a batch and every spawned worker has
\* finished.
C27_QuietStopAllFinished ==
    [][\A e \in Engines :
         QuietStopStep(e) =>
            /\ eng[e].linksCh = <<>>
            /\ \A w \in Workers(e) : workers[e][w].pc = "done"]_vars

\* C27: the timeout case sets stop only when the frontier is empty, no
\* worker is about to send a batch and every spawned worker has run its
\* decrement (all it may have left is w.Done()): every URL a result lists
\* was evaluated and every admitted URL was fetched.
C27_QuietStopNothingPending ==
    [][\A e \in Engines :
         QuietStopStep(e) =>
            /\ eng[e].linksCh = <<>>
            /\ eng[e].links = <<>>
            /\ \A w \in Workers(e) : workers[e][w].pc \in {"wgdone", "done"}
            /\ \A w \in Workers(e) : String(workers[e][w].link) \in Range(fetched[e])
            /\ \A i \in 1..Len(bus) :
                  bus[i].engine = e =>
                     \A u \in Range(bus[i].result.links) :
                        Contains(cache, Namespace(e), u)]_vars

\* C27, its case: an engine stopped by the quiet period after a walk over
\* four pages is waiting for a worker that has only w.Done() left.
C27_Witness ==
    \E e \in Engines :
       /\ eng[e].pc = "wait"
       /\ settings.MaxDepth = 0
       /\ ~cancelled
       /\ Len(workers[e]) >= 4
       /\ \E w \in Workers(e) : workers[e][w].pc = "wgdone"

\* The result of worker w of engine e is on the bus.
Produced(e, w) ==
    \E i \in 1..Len(bus) :
       bus[i].engine = e /\ bus[i].result.url = String(workers[e][w].link)

\* A worker of engine e, not spawned after stop, whose fetch succeeded with
\* links, takes a step: it counts its links, then produces its result, then
\* sends the links, and later runs its decrement.
InOrder(e, w) ==
    LET wk == workers[e][w]
        wk2 == workers'[e][w]
    IN /\ wk.pc = "fetched" =>
             /\ wk2.pc = "enqueue"
             /\ eng'[e].linkCounter = eng[e].linkCounter + Len(wk.foundLinks)
             /\ bus' = bus
             /\ eng'[e].linksCh = eng[e].linksCh
       /\ wk.pc = "enqueue" =>
             /\ wk2.pc = "send"
             /\ bus' = Append(bus, [engine |-> e,
                                    result |-> [url |-> String(wk.link),
                                                links |-> Strings(wk.foundLinks)]])
             /\ eng'[e].linksCh = eng[e].linksCh
             /\ eng'[e].linkCounter = eng[e].linkCounter
       /\ wk.pc = "send" =>
             /\ wk2.pc = "sleep"
             /\ eng'[e].linksCh = Append(eng[e].linksCh, wk.foundLinks)
             /\ eng'[e].linkCounter = eng[e].linkCounter
             /\ bus' = bus
       /\ wk.pc = "sleep" => wk2.pc = "decrement"
       /\ wk.pc = "decrement" =>
             /\ wk2.pc = "wgdone"
             /\ eng'[e].linkCounter = eng[e].linkCounter - 1

\* C28, as stated: the result of a page is on the bus before any URL found
\* on that page is fetched.
C28_ResultBeforeDiscovered ==
    \A e \in Engines : \A w \in Workers(e) :
       ~workers[e][w].stopSentinel =>
          \A k \in 1..Len(workers[e][w].foundLinks) :
             String(workers[e][w].foundLinks[k]) \in Range(fetched[e])
                => Produced(e, w)

\* C28: a worker whose fetch brought links counts them, then produces its
\* result, then sends them, and decrements later; so every URL an engine
\* fetches, its seed apart, is by then listed in a result of that engine.
C28_CountProduceSend ==
    /\ [][\A e \in Engines : \A w \in Workers(e) :
            (/\ e \in 1..Len(eng')
             /\ workers'[e][w].pc # workers[e][w].pc
             /\ workers[e][w].pc \in {"fetched", "enqueue", "send", "sleep", "decrement"}
             /\ ~ReturnsEarly(workers[e][w]))
               => InOrder(e, w)]_vars
    /\ [](\A e \in Engines : \A u \in Range(fetched[e]) :
             u # String(eng[e].rootURL) =>
                \E i \in 1..Len(bus) :
                   bus[i].engine = e /\ u \in Range(bus[i].result.links))

\* C28, its case: a page that links back to the seed has produced its
\* result, the seed among its links, and a URL of its batch was fetched.
C28_Witness ==
    \E e \in Engines : \E i \in 1..Len(bus) :
       /\ bus[i].engine = e
       /\ bus[i].result.url = String(PageA)
       /\ String(eng[e].rootURL) \in Range(bus[i].result.links)
       /\ String(PageT) \in Range(bus[i].result.links)
       /\ String(PageT) \in Range(fetched[e])

\* The steps of a worker, by the place it leaves and the place it goes to.
WorkerEdges ==
    {<<"acquire", "fetch">>, <<"fetch", "load">>, <<"fetch", "fetched">>,
     <<"load", "load">>, <<"load", "store">>, <<"load", "fetched">>,
     <<"store", "load">>, <<"store", "fetched">>,
     <<"fetched", "enqueue">>, <<"fetched", "sleep">>,
     <<"enqueue", "send">>, <<"send", "sleep">>,
     <<"sleep", "decrement">>, <<"decrement", "wgdone">>, <<"wgdone", "done">>}

\* C29: whatever its fetch gave, a worker that finishes has gone from the
\* fetch through UpdateLastDelay, then the sleep with its slot held, then
\* the release of the slot, then one decrement of linkCounter, in this order
\* and each once; the semaphore holds one slot per worker between its
\* acquire and its release.
C29_EveryPathSleepsReleasesDecrements ==
    /\ [](\A e \in Engines :
             eng[e].pc # "start" =>
                /\ eng[e].semaphore = Cardinality(Holding(e))
                /\ eng[e].semaphore <= eng[e].semCap)
    /\ [][\A e \in Engines : \A w \in Workers(e) :
            LET wk == workers[e][w] IN
              (e \in 1..Len(eng') /\ workers'[e][w] # wk) =>
                 /\ <<wk.pc, workers'[e][w].pc>> \in WorkerEdges
                 /\ wk.pc = "fetched" =>
                       eng'[e].crawlingRules = UpdateLastDelay(eng[e].crawlingRules, wk.rt)
                 /\ wk.pc = "sleep" =>
                       /\ w \in Holding(e)
                       /\ eng'[e].semaphore = eng[e].semaphore - 1
                       /\ eng'[e].linkCounter = eng[e].linkCounter
                 /\ wk.pc = "decrement" =>
                       /\ w \notin Holding(e)
                       /\ eng'[e].linkCounter = eng[e].linkCounter - 1
                       /\ eng'[e].semaphore = eng[e].semaphore
                 /\ wk.pc = "wgdone" =>
                       /\ eng'[e].linkCounter = eng[e].linkCounter
                       /\ eng'[e].semaphore = eng[e].semaphore]_vars

\* C29, its case: an engine whose workers have all finished, one after a
\* failed fetch, one after a page without new links and one after sending
\* its links; no slot is held.
C29_Witness ==
    \E e \in Engines :
       /\ eng[e].semaphore = 0
       /\ \A w \in Workers(e) : workers[e][w].pc = "done"
       /\ \E w \in Workers(e) : workers[e][w].err
       /\ \E w \in Workers(e) :
             ~workers[e][w].err /\ workers[e][w].foundLinks = <<>>
       /\ \E w \in Workers(e) : ~ReturnsEarly(workers[e][w])

\* The workers of engine e whose fetch is over and whose sleep has not
\* elapsed.
InDelayWindow(e) ==
    {w \in Workers(e) : workers[e][w].pc \in {"fetched", "enqueue", "send", "sleep"}}

\* C30: with Concurrency >= 1 no fetch of an engine starts while a worker of
\* that engine is between the end of its fetch and the end of its sleep.
C30_OneRequestPerDelayWindow ==
    [][\A e \in Engines :
         (/\ settings.Concurrency >= 1
          /\ e \in 1..Len(fetched')
          /\ Len(fetched'[e]) > Len(fetched[e]))
            => InDelayWindow(e) = {}]_vars

\* The step in which worker w of engine e hands its result to the Producer.
Produces(e, w) ==
    /\ workers[e][w].pc = "enqueue"
    /\ ~exited'
    /\ workers'[e][w].pc # "enqueue"

\* C31: results are handed to the Producer in the order in which the
\* FetchLinks calls returned: when a worker produces its result, no worker
\* of the engine whose FetchLinks had returned before its own is still
\* waiting to produce.
C31_ProducedInCompletionOrder ==
    [][\A e \in Engines : \A w \in Workers(e) :
          Produces(e, w) =>
              \A v \in workers[e][w].ahead : workers[e][v].pc # "enqueue"]_vars

\* The robots group engine e holds once its load has run.
LoadedGroup(e) ==
    IF GetRobotsTxtGroupOk(eng[e].rootURL) THEN <<RobotsGroupS>> ELSE <<>>

\* C32: robotsGroup is written at most once per engine, by the load that
\* runs while the seed batch waits on the frontier and before the loop
\* receives it; every Allowed and every worker of the engine comes after the
\* load, finds the group the load left, and the group does not change again.
C32_RobotsLoadedOnceBeforeLoop ==
    /\ [][\A e \in Engines :
            (~exited' /\ eng'[e].crawlingRules.robotsGroup
                             # eng[e].crawlingRules.robotsGroup) =>
                /\ eng[e].pc = "robots"
                /\ eng[e].crawlingRules.robotsGroup = <<>>
                /\ eng[e].linksCh = <<<<eng[e].rootURL>>>>
                /\ workers[e] = <<>>]_vars
    /\ [](\A e \in Engines :
             (eng[e].pc \in {"contains", "allowed"} \/ workers[e] # <<>>) =>
                 eng[e].crawlingRules.robotsGroup = LoadedGroup(e))

\* The seed is being tested by Allowed against the group the load has set.
C32_Witness ==
    \E e \in Engines :
        /\ eng[e].pc = "allowed"
        /\ Head(eng[e].links) = eng[e].rootURL
        /\ workers[e] = <<>>
        /\ eng[e].crawlingRules.robotsGroup = <<RobotsGroupS>>

\* The frontier of engine e is full.
FrontierFull(e) == Len(eng[e].linksCh) >= eng[e].chCap

\* Worker w of engine e puts its batch on the frontier in this step.
Sends(e, w) ==
    /\ workers[e][w].pc = "send"
    /\ workers'[e][w].pc = "sleep"
    /\ ~FrontierFull(e)
    /\ eng'[e].linksCh = Append(eng[e].linksCh, workers[e][w].foundLinks)
    /\ eng'[e].semaphore = eng[e].semaphore

\* The main goroutine of engine e takes the batch at the head of the
\* frontier in this step.
Receives(e) ==
    /\ eng[e].pc = "select"
    /\ eng[e].linksCh # <<>>
    /\ eng'[e].linksCh = Tail(eng[e].linksCh)
    /\ eng'[e].links = Head(eng[e].linksCh)

\* C33: the frontier holds at most max(Concurrency, 1) batches; a worker
\* whose send finds it full stays at the send with its semaphore slot until
\* the main goroutine has received a batch; a batch enters the frontier by
\* the seed enqueue or by a send and leaves it only into the hands of the
\* main goroutine.
C33_FrontierBoundedSendBlocks ==
    /\ [](\A e \in Engines :
             /\ Len(eng[e].linksCh) <= EffectiveConcurrency(settings.Concurrency)
             /\ \A w \in Workers(e) : workers[e][w].pc = "send" => w \in Holding(e))
    /\ [][\A e \in Engines : ~exited' =>
            /\ \A w \in Workers(e) :
                  (workers[e][w].pc = "send" /\ FrontierFull(e) /\ ~Receives(e))
                     => /\ workers'[e][w].pc = "send"
                        /\ eng'[e].semaphore >= Cardinality({v \in Workers(e) :
                                                     workers[e][v].pc = "send"})
            /\ eng'[e].linksCh # eng[e].linksCh =>
                  \/ eng[e].pc = "start" /\ eng'[e].linksCh = <<<<eng[e].rootURL>>>>
                  \/ \E w \in Workers(e) : Sends(e, w)
                  \/ Receives(e)]_vars

\* A worker waits to send to a full frontier, its semaphore slot held, while
\* the main goroutine is still in its loop.
C33_Witness ==
    \E e \in Engines : \E w \in Workers(e) :
        /\ workers[e][w].pc = "send"
        /\ FrontierFull(e)
        /\ eng[e].semaphore >= 1
        /\ eng[e].pc \in {"select", "contains", "allowed"}

(***************************************************************************)
(* memoryCache called by several goroutines at once: each caller makes one *)
(* Set or one Contains, line by line, under the RWMutex of the cache. unit *)
(* holds the mutex and the callers.                                        *)
(***************************************************************************)
\* The calls made: two namespaces, two keys.
CacheCalls ==
    <<[op |-> "Set", ns |-> String(Seed), key |-> String(PageA)],
      [op |-> "Set", ns |-> String(Seed), key |-> String(PageT)],
      [op |-> "Set", ns |-> "other", key |-> String(PageA)],
      [op |-> "Set", ns |-> "other", key |-> String(PageT)],
      [op |-> "Contains", ns |-> String(Seed), key |-> String(PageA)],
      [op |-> "Contains", ns |-> String(Seed), key |-> String(PageT)],
      [op |-> "Contains", ns |-> "other", key |-> String(PageA)],
      [op |-> "Contains", ns |-> "other", key |-> String(PageT)]>>

\* A goroutine about to make the call: ok is the "ok" of lines 26 and 39, res
\* the value Contains returns. sure is history: a Set of the same namespace
\* and key had returned when this Contains took its read lock.
NewCaller(call) ==
    [op |-> call.op, ns |-> call.ns, key |-> call.key, pc |-> "call",
     ok |-> FALSE, res |-> FALSE, sure |-> FALSE]

\* sync.RWMutex as newMemoryCache leaves it.
NewMutex == [writer |-> FALSE, readers |-> 0]

\* A Lock that does not wait for anyone.
CanLockAlways(mu) == TRUE

\* mutex.Lock() returns when no reader and no writer holds the mutex.
CanLock(mu) == ~mu.writer /\ mu.readers = 0

\* mutex.RLock() returns when no writer holds the mutex.
CanRLock(mu) == ~mu.writer

Callers == 1..Len(unit.callers)

\* c.mutex.Lock() (line 24)
SetLock(i) ==
    /\ unit.callers[i].op = "Set"
    /\ unit.callers[i].pc = "call"
    /\ CanLock(unit.mutex)
    /\ unit' = [unit EXCEPT !.mutex.writer = TRUE, !.callers[i].pc = "lookup"]
    /\ UNCHANGED <<cache, UnitFrame>>

\* _, ok := c.cache[namespace] (line 26)
SetLookup(i) ==
    /\ unit.callers[i].op = "Set"
    /\ unit.callers[i].pc = "lookup"
    /\ LET ok == unit.callers[i].ns \in DOMAIN cache IN
         unit' = [unit EXCEPT !.callers[i].ok = ok,
                              !.callers[i].pc = IF ok THEN "store" ELSE "make"]
    /\ UNCHANGED <<cache, UnitFrame>>

\* c.cache[namespace] = make(map[string]bool) (line 28)
SetMake(i) ==
    /\ unit.callers[i].pc = "make"
    /\ cache' = (unit.callers[i].ns :> {}) @@ cache
    /\ unit' = [unit EXCEPT !.callers[i].pc = "store"]
    /\ UNCHANGED UnitFrame

\* c.cache[namespace][key] = true (line 30)
SetStore(i) ==
    /\ unit.callers[i].pc = "store"
    /\ cache' = CacheSet(cache, unit.callers[i].ns, unit.callers[i].key)
    /\ unit' = [unit EXCEPT !.callers[i].pc = "unlock"]
    /\ UNCHANGED UnitFrame

\* The deferred c.mutex.Unlock() (line 25): Set returns.
SetUnlock(i) ==
    /\ unit.callers[i].op = "Set"
    /\ unit.callers[i].pc = "unlock"
    /\ unit' = [unit EXCEPT !.mutex.writer = FALSE, !.callers[i].pc = "returned"]
    /\ UNCHANGED <<cache, UnitFrame>>

\* c.mutex.RLock() (line 37)
ContainsRLock(i) ==
    /\ unit.callers[i].op = "Contains"
    /\ unit.callers[i].pc = "call"
    /\ CanRLock(unit.mutex)
    /\ unit' = [unit EXCEPT
                  !.mutex.readers = @ + 1,
                  !.callers[i].pc = "lookup",
                  !.callers[i].sure =
                      \E j \in Callers : /\ unit.callers[j].op = "Set"
                                         /\ unit.callers[j].pc = "returned"
                                         /\ unit.callers[j].ns = unit.callers[i].ns
                                         /\ unit.callers[j].key = unit.callers[i].key]
    /\ UNCHANGED <<cache, UnitFrame>>

\* inner, ok := c.cache[namespace]; if !ok { return false } (lines 39-42)
ContainsLookup(i) ==
    /\ unit.callers[i].op = "Contains"
    /\ unit.callers[i].pc = "lookup"
    /\ LET ok == unit.callers[i].ns \in DOMAIN cache IN
         unit' = [unit EXCEPT !.callers[i].ok = ok,
                              !.callers[i].pc = IF ok THEN "read" ELSE "unlock"]
    /\ UNCHANGED <<cache, UnitFrame>>

\* return inner[key] (line 43)
ContainsRead(i) ==
    /\ unit.callers[i].pc = "read"
    /\ unit' = [unit EXCEPT
                  !.callers[i].res = unit.callers[i].key \in cache[unit.callers[i].ns],
                  !.callers[i].pc = "unlock"]
    /\ UNCHANGED <<cache, UnitFrame>>

\* The deferred c.mutex.RUnlock() (line 38): Contains returns.
ContainsRUnlock(i) ==
    /\ unit.callers[i].op = "Contains"
    /\ unit.callers[i].pc = "unlock"
    /\ unit' = [unit EXCEPT !.mutex.readers = @ - 1, !.callers[i].pc = "returned"]
    /\ UNCHANGED <<cache, UnitFrame>>

\* MaxCallers goroutines, one call each; the goroutines are alike, so the
\* calls are taken in the order of CacheCalls.
InitCallers ==
    /\ InitUnit
    /\ robotsTxt = "404"
    /\ \E f \in [1..MaxCallers -> 1..Len(CacheCalls)] :
          /\ \A i \in 1..(MaxCallers - 1) : f[i] <= f[i + 1]
          /\ unit = [mutex |-> NewMutex,
                     callers |-> [i \in 1..MaxCallers |-> NewCaller(CacheCalls[f[i]])]]

NextCallers ==
    \/ \E i \in Callers : SetLock(i)
    \/ \E i \in Callers : SetLookup(i)
    \/ \E i \in Callers : SetMake(i)
    \/ \E i \in Callers : SetStore(i)
    \/ \E i \in Callers : SetUnlock(i)
    \/ \E i \in Callers : ContainsRLock(i)
    \/ \E i \in Callers : ContainsLookup(i)
    \/ \E i \in Callers : ContainsRead(i)
    \/ \E i \in Callers : ContainsRUnlock(i)

CallersSpec == InitCallers /\ [][NextCallers]_vars

\* The callers inside Set, between Lock and Unlock; inside Contains, between
\* RLock and RUnlock.
InsideSet == {i \in Callers : unit.callers[i].op = "Set" /\
                              unit.callers[i].pc \in {"lookup", "make", "store", "unlock"}}
InsideContains == {i \in Callers : unit.callers[i].op = "Contains" /\
                                   unit.callers[i].pc \in {"lookup", "read", "unlock"}}

\* C34: under every interleaving of concurrent Set and Contains callers no
\* inserted key is lost and no Contains sees a namespace half built: the key
\* of every Set that has returned is contained, a Contains is never inside
\* together with a Set nor finds a namespace with no key, it returns true
\* only for a key some Set has stored, and it returns true for a key whose
\* Set had returned before it began.
C34_NoLostKeyNoPartialState ==
    /\ \A i \in Callers :
          (unit.callers[i].op = "Set" /\ unit.callers[i].pc \in {"unlock", "returned"})
             => Contains(cache, unit.callers[i].ns, unit.callers[i].key)
    /\ Cardinality(InsideSet) <= 1
    /\ InsideContains # {} =>
          /\ InsideSet = {}
          /\ \A ns \in DOMAIN cache : cache[ns] # {}
    /\ \A i \in Callers :
          (unit.callers[i].op = "Contains" /\ unit.callers[i].pc \in {"unlock", "returned"})
             => /\ unit.callers[i].sure => unit.callers[i].res
                /\ unit.callers[i].res =>
                      \E j \in Callers :
                         /\ unit.callers[j].op = "Set"
                         /\ unit.callers[j].pc \in {"unlock", "returned"}
                         /\ unit.callers[j].ns = unit.callers[i].ns
                         /\ unit.callers[j].key = unit.callers[i].key

\* Two Sets of one namespace have returned, the first having created the
\* namespace and the second having found it, and a Contains that was called
\* with them has returned true for the key of the second.
C34_Witness ==
    \E i, j, k \in Callers :
        /\ unit.callers[i].op = "Set" /\ unit.callers[j].op = "Set"
        /\ unit.callers[i].ns = unit.callers[j].ns
        /\ unit.callers[i].key # unit.callers[j].key
        /\ unit.callers[i].pc = "returned" /\ unit.callers[j].pc = "returned"
        /\ ~unit.callers[i].ok /\ unit.callers[j].ok
        /\ unit.callers[k].op = "Contains"
        /\ unit.callers[k].pc = "returned"
        /\ unit.callers[k].ns = unit.callers[i].ns
        /\ unit.callers[k].key = unit.callers[j].key
        /\ unit.callers[k].res

\* The links of the page of worker wk as extractLinks meets them, before the
\* parser's seen map is asked.
PageLinks(wk) ==
    ResolvedLinks(excludedExts, parseStartURL(String(wk.link)),
                  HttpGet(site, String(wk.link)).doc)

\* C35: a result is emitted for a URL only if its fetch succeeded and found
\* links: every result on the queue has links and the url of a fetch, every
\* batch on the frontier has links, a worker that enqueues or sends had no
\* error and has links; a link the parser holds as returned is not found
\* again, and a worker whose fetch failed or found no link goes from its
\* fetch to its deferred calls, producing nothing and sending nothing.
C35_ResultOnlyWithLinks ==
    /\ [](/\ \A i \in 1..Len(bus) :
                /\ bus[i].result.links # <<>>
                /\ bus[i].result.url \in Range(fetched[bus[i].engine])
          /\ \A e \in Engines :
                /\ \A i \in 1..Len(eng[e].linksCh) : eng[e].linksCh[i] # <<>>
                /\ \A w \in Workers(e) :
                      workers[e][w].pc \in {"enqueue", "send"} =>
                          ~workers[e][w].err /\ workers[e][w].foundLinks # <<>>)
    /\ [][\A e \in Engines : \A w \in Workers(e) :
            (~exited' /\ workers'[e][w].pc # workers[e][w].pc) =>
               /\ (/\ workers[e][w].pc = "load"
                   /\ String(Head(workers[e][w].elems)) \in DOMAIN seen
                   /\ seen[String(Head(workers[e][w].elems))])
                      => workers'[e][w].foundLinks = workers[e][w].foundLinks
               /\ (/\ workers[e][w].pc = "fetched"
                   /\ workers[e][w].err \/ workers[e][w].foundLinks = <<>>)
                      => /\ workers'[e][w].pc = "sleep"
                         /\ bus' = bus
                         /\ eng'[e].linksCh = eng[e].linksCh]_vars

\* A worker has finished a fetch that succeeded on a page with links, all of
\* them returned by the parser before: it found none, no result names its
\* page, and the frontier is empty.
C35_Witness ==
    \E e \in Engines : \E w \in Workers(e) :
        /\ workers[e][w].pc = "done"
        /\ ~workers[e][w].err /\ ~workers[e][w].stopSentinel
        /\ PageLinks(workers[e][w]) # <<>>
        /\ workers[e][w].foundLinks = <<>>
        /\ \A i \in 1..Len(bus) : bus[i].result.url # String(workers[e][w].link)
        /\ bus # <<>>
        /\ eng[e].linksCh = <<>>

\* The results engine e has on the queue.
ResultsOf(e) == {i \in 1..Len(bus) : bus[i].engine = e}

\* The workers of engine e spawned after stop was set.
Sentinels(e) == {w \in Workers(e) : workers[e][w].stopSentinel}

=============================================================================
